---- MODULE Spec2Model ----
(***************************************************************************)
(* Connection scheduling and execution core of the server:                 *)
(*   - ServiceStateMachine (transport/service_state_machine.cpp)           *)
(*   - ServiceExecutorAdaptive (transport/service_executor_adaptive.cpp)   *)
(*   - ServiceExecutorSynchronous                                          *)
(*                  (transport/service_executor_synchronous.cpp)           *)
(*   - ConnectionPool (executor/connection_pool.cpp)                       *)
(* Each component has its own next-state relation and specification; the   *)
(* variables of the other components stay at their initial values.         *)
(***************************************************************************)
EXTENDS Integers, Sequences, FiniteSets, TLC

(***************************************************************************)
(* State.                                                                   *)
(***************************************************************************)
VARIABLES
    ssm,        \* the ServiceStateMachine object: _state, _owned, _owningThread,
                \* _oldThreadName, _cleanupHook, _inExhaust, and where the
                \* Client is: 0 in _dbClient, t current on thread t, -1 destroyed
    thread,     \* per thread: position in the SSM code, the _haveTakenOwnership
                \* of the ThreadGuard it holds, its thread name
    ssmTasks,   \* closures handed to ServiceExecutor::schedule, not yet run
    ticket,     \* the outstanding transport wait: "none", "source" or "sink"
    ssmEnv      \* build flavour, process abort, start() mode, history counters

ssmVars == <<ssm, thread, ssmTasks, ticket, ssmEnv>>

VARIABLES
    ad,        \* the executor's atomics, the io_context and the condition
    adWorker,  \* per slot: pc, stillPending, the wrapped tasks on its stack
    adTask,    \* per task: where it is, what schedule() returned, run count
    adCtl,     \* the controller thread
    adShut     \* the thread calling shutdown()

adVars == <<ad, adWorker, adTask, adCtl, adShut>>

VARIABLES
    sy,        \* the synchronous executor: _stillRunning, thread count
    syThread,  \* per worker thread: pc and its thread_local queue and depth
    syTask,    \* per task: where it is, what schedule() returned, run count
    syShut     \* the thread calling shutdown()

syVars == <<sy, syThread, syTask, syShut>>

VARIABLES
    cp,        \* the SpecificPool of one host: pools, requests, timer, state
    cpConn,    \* per connection object: generation, status, last used, timer
    cpReq,     \* per get() call: its deadline and what its callback was given
    cpNow      \* the clock read by _factory->now()

cpVars == <<cp, cpConn, cpReq, cpNow>>

\* what the steps of one component leave alone
ssmOthers == <<adVars, syVars, cpVars>>
adOthers == <<ssmVars, syVars, cpVars>>
syOthers == <<ssmVars, adVars, cpVars>>
cpOthers == <<ssmVars, adVars, syVars>>

(***************************************************************************)
(* Bounds of the model.                                                     *)
(***************************************************************************)
\* threads that may touch one ServiceStateMachine
NumThreads == 2
\* messages one connection receives before the peer closes
MaxMessages == 2

Threads == 1..NumThreads

(***************************************************************************)
(* ServiceStateMachine                                                      *)
(***************************************************************************)
States == {"Created", "Source", "SourceWait", "Process", "SinkWait",
           "EndSession", "Ended"}
Ownerships == {"kUnowned", "kOwned", "kStatic"}

\* _threadName of the state machine ("conn-<id>") and the name a thread has
\* of its own
ConnThreadName == "conn"
OwnThreadName == "worker"

\* the part of the state the ThreadGuard and the step functions work on
\* env.handled: calls of handleRequest; env.received: messages sourced;
\* env.plain: every response so far was non-empty and not an exhaust one
\* env.stores: the _state.store() calls of the step under way, each as
\* <<value before, value stored>>
SsmWorld ==
    [ssm |-> ssm, thread |-> thread, env |-> [ssmEnv EXCEPT !.stores = <<>>]]

\* _state.store(s)
storeState(w, s) ==
    [w EXCEPT !.ssm.state = s,
              !.env.stores = Append(@, <<w.ssm.state, s>>)]

\* ThreadGuard::ThreadGuard(ServiceStateMachine*)
takeOwnership(w, t) ==
    LET owned == w.ssm.owned   \* the value compareAndSwap returns
        cas == IF owned = "kUnowned" THEN "kOwned" ELSE owned
    IN  IF owned = "kStatic"
        THEN [w EXCEPT !.ssm.owned = cas,
                       !.thread[t].haveTakenOwnership = TRUE]
        ELSE [w EXCEPT !.ssm.owned = cas,
                       !.ssm.oldThreadName =
                           IF w.thread[t].name # ConnThreadName
                           THEN w.thread[t].name ELSE @,
                       !.thread[t].name = ConnThreadName,
                       !.ssm.dbClient = IF @ = 0 THEN t ELSE @,
                       !.thread[t].haveTakenOwnership = TRUE]

ThreadGuard(w, t) ==
    LET owned == w.ssm.owned
    IN  IF owned = "kStatic"
        THEN \* dassert(haveClient()); dassert(Client::getCurrent() == _dbClientPtr)
             IF w.env.debugBuild /\ w.ssm.dbClient # t
             THEN [w EXCEPT !.env.crashed = TRUE]
             ELSE takeOwnership(w, t)
        ELSE \* MONGO_CONFIG_DEBUG_BUILD: invariant(owned == Ownership::kUnowned)
             IF w.env.debugBuild /\ owned # "kUnowned"
             THEN [w EXCEPT !.env.crashed = TRUE]
             ELSE LET g == takeOwnership(w, t)
                  IN  IF w.env.debugBuild
                      THEN [g EXCEPT !.ssm.owningThread = t]
                      ELSE g

\* ThreadGuard::markStaticOwnership
markStaticOwnership(w, t) ==
    [w EXCEPT !.ssm.owned = "kStatic", !.env.staticThread = t]

\* as release, but the hook is called through _cleanupHook and stays set
releaseKeepsHook(w, t) ==
    LET owned == w.ssm.owned
        bad == w.env.debugBuild /\
               (~w.thread[t].haveTakenOwnership \/ owned = "kUnowned"
                    \/ w.ssm.owningThread # t)
        w1 == IF owned # "kStatic"
              THEN [w EXCEPT
                      !.ssm.dbClient = IF @ = t THEN 0 ELSE @,
                      !.thread[t].name =
                          IF w.ssm.oldThreadName # ""
                          THEN w.ssm.oldThreadName ELSE @]
              ELSE w
    IN  IF bad THEN [w EXCEPT !.env.crashed = TRUE]
        ELSE IF w1.ssm.state = "Ended"
        THEN [w1 EXCEPT !.env.hookCalls =
                            IF w1.ssm.cleanupHook THEN @ + 1 ELSE @]
        ELSE [w1 EXCEPT !.thread[t].haveTakenOwnership = FALSE,
                        !.ssm.owned =
                            IF owned = "kOwned" THEN "kUnowned" ELSE @]

\* as release, but _owned is stored whatever was loaded
releaseStoresAnyway(w, t) ==
    LET owned == w.ssm.owned
        bad == w.env.debugBuild /\
               (~w.thread[t].haveTakenOwnership \/ owned = "kUnowned"
                    \/ w.ssm.owningThread # t)
        w1 == IF owned # "kStatic"
              THEN [w EXCEPT
                      !.ssm.dbClient = IF @ = t THEN 0 ELSE @,
                      !.thread[t].name =
                          IF w.ssm.oldThreadName # ""
                          THEN w.ssm.oldThreadName ELSE @]
              ELSE w
    IN  IF bad THEN [w EXCEPT !.env.crashed = TRUE]
        ELSE IF w1.ssm.state = "Ended"
        THEN [w1 EXCEPT !.ssm.cleanupHook = FALSE,
                        !.env.hookCalls =
                            IF w1.ssm.cleanupHook THEN @ + 1 ELSE @]
        ELSE [w1 EXCEPT !.thread[t].haveTakenOwnership = FALSE,
                        !.ssm.owned = "kUnowned"]

\* ThreadGuard::release
release(w, t) ==
    LET owned == w.ssm.owned
        bad == w.env.debugBuild /\
               (~w.thread[t].haveTakenOwnership \/ owned = "kUnowned"
                    \/ w.ssm.owningThread # t)
        w1 == IF owned # "kStatic"
              THEN [w EXCEPT
                      !.ssm.dbClient = IF @ = t THEN 0 ELSE @,
                      !.thread[t].name =
                          IF w.ssm.oldThreadName # ""
                          THEN w.ssm.oldThreadName ELSE @]
              ELSE w
    IN  IF bad THEN [w EXCEPT !.env.crashed = TRUE]
        ELSE IF w1.ssm.state = "Ended"
        THEN [w1 EXCEPT !.ssm.cleanupHook = FALSE,
                        !.env.hookCalls =
                            IF w1.ssm.cleanupHook THEN @ + 1 ELSE @]
        ELSE [w1 EXCEPT !.thread[t].haveTakenOwnership = FALSE,
                        !.ssm.owned =
                            IF owned = "kOwned" THEN "kUnowned" ELSE @]

\* ThreadGuard::~ThreadGuard: the guard object is gone afterwards
destroyGuard(w, t) ==
    LET w1 == IF w.thread[t].haveTakenOwnership THEN release(w, t) ELSE w
    IN  [w1 EXCEPT !.thread[t].haveTakenOwnership = FALSE]

\* as cleanupSession, but _state is left as it is
cleanupSessionKeepsState(w, t) ==
    destroyGuard([w EXCEPT !.ssm.dbClient = IF @ = t THEN -1 ELSE @], t)

\* ServiceStateMachine::_cleanupSession, with the destruction of its guard
cleanupSession(w, t) ==
    destroyGuard([storeState(w, "Ended") EXCEPT
                      !.ssm.dbClient = IF @ = t THEN -1 ELSE @],
                 t)

SsmCommit(w, pcs) ==
    /\ UNCHANGED ssmOthers
    /\ ssm' = w.ssm
    /\ thread' = [t \in Threads |->
                    [w.thread[t] EXCEPT !.pc =
                        IF t \in DOMAIN pcs THEN pcs[t] ELSE @]]
    /\ ssmEnv' = w.env

CanEnter(t) ==
    /\ ~ssmEnv.crashed
    /\ thread[t].pc = "idle"
    /\ (ssm.owned = "kStatic" => t = ssmEnv.staticThread)

\* ServiceStateMachine::start: the guard is built, _scheduleNextWithGuard follows
SsmStart(t, ownershipModel) ==
    /\ CanEnter(t)
    /\ ~ssmEnv.started
    /\ ssm.state = "Created"
    /\ LET w == ThreadGuard([SsmWorld EXCEPT !.env.started = TRUE,
                                             !.env.ownershipModel = ownershipModel], t)
       IN  SsmCommit([w EXCEPT !.thread[t].flags = "kEmptyFlags"],
                     t :> (IF w.env.crashed THEN "idle" ELSE "schedule"))
    /\ UNCHANGED <<ssmTasks, ticket>>

\* as SsmScheduleNextWithGuard, but an accepted task is queued twice
SsmScheduleNextWithGuardTwice(t, ok) ==
    /\ ~ssmEnv.crashed
    /\ thread[t].pc = "schedule"
    /\ LET w1 == release(SsmWorld, t)
       IN  IF w1.env.crashed
           THEN SsmCommit(w1, t :> "idle") /\ UNCHANGED ssmTasks
           ELSE IF ok
           THEN /\ SsmCommit(w1, t :> "idle")
                /\ ssmTasks' = ssmTasks \o <<thread[t].flags, thread[t].flags>>
           ELSE /\ SsmCommit(ThreadGuard(w1, t), t :> "terminate")
                /\ UNCHANGED ssmTasks
    /\ UNCHANGED ticket

\* ServiceStateMachine::_scheduleNextWithGuard: guard.release(), schedule();
\* on a non-OK status the terminateGuard is taken
SsmScheduleNextWithGuard(t, ok) ==
    /\ ~ssmEnv.crashed
    /\ thread[t].pc = "schedule"
    /\ LET w1 == release(SsmWorld, t)
       IN  IF w1.env.crashed
           THEN SsmCommit(w1, t :> "idle") /\ UNCHANGED ssmTasks
           ELSE IF ok
           THEN /\ SsmCommit(w1, t :> "idle")
                /\ ssmTasks' = Append(ssmTasks, thread[t].flags)
           ELSE /\ SsmCommit(ThreadGuard(w1, t), t :> "terminate")
                /\ UNCHANGED ssmTasks
    /\ UNCHANGED ticket

\* _terminateAndLogIfError and _cleanupSession(terminateGuard)
SsmTerminate(t) ==
    /\ ~ssmEnv.crashed
    /\ thread[t].pc = "terminate"
    /\ SsmCommit(cleanupSession(SsmWorld, t), t :> "idle")
    /\ ticket' = "none"
    /\ UNCHANGED ssmTasks

\* the closure of _scheduleNextWithGuard, run by the executor on thread t
SsmRunTask(t) ==
    /\ CanEnter(t)
    /\ ssmTasks # << >>
    /\ ssmTasks' = Tail(ssmTasks)
    /\ LET w1 == ThreadGuard(SsmWorld, t)
           w2 == IF ~w1.env.crashed /\ ssmEnv.ownershipModel = "kStatic"
                 THEN markStaticOwnership(w1, t) ELSE w1
       IN  SsmCommit(w2, t :> (IF w2.env.crashed THEN "idle" ELSE "runNext"))
    /\ UNCHANGED ticket

\* ServiceStateMachine::runNext called from outside the state machine
SsmRunNext(t) ==
    /\ ~ssmEnv.crashed
    /\ thread[t].pc = "idle"
    /\ ssm.state # "Ended"
    /\ LET w == ThreadGuard(SsmWorld, t)
       IN  SsmCommit(w, t :> (IF w.env.crashed THEN "idle" ELSE "runNext"))
    /\ UNCHANGED <<ssmTasks, ticket>>

\* a holder of a ThreadGuard calls release() on it and then release() again
SsmReleaseTwice(t) ==
    /\ ~ssmEnv.crashed
    /\ thread[t].pc \in {"schedule", "runNext"}
    /\ LET w1 == release(SsmWorld, t)
           w2 == IF w1.env.crashed THEN w1 ELSE release(w1, t)
       IN  SsmCommit(w2, t :> "releasedTwice")
    /\ UNCHANGED <<ssmTasks, ticket>>

\* as SsmSourceMessage, but the guard is not released before the wait
SsmSourceMessageKeepsGuard(w, t) ==
    /\ SsmCommit(storeState(w, "SourceWait"), t :> "idle")
    /\ ticket' = "source"
    /\ UNCHANGED ssmTasks

\* ServiceStateMachine::_sourceMessage
SsmSourceMessage(w, t) ==
    /\ SsmCommit(release(storeState(w, "SourceWait"), t), t :> "idle")
    /\ ticket' = "source"
    /\ UNCHANGED ssmTasks

\* as catchDBException, but the exception leaves _runNextInGuard
catchNothing(w, t) ==
    [destroyGuard(w, t) EXCEPT !.env.crashed = TRUE]

\* _runNextInGuard, catch (const DBException&) and what follows it: the
\* guard given to the step was destroyed while unwinding, a new one is taken
\* if the guard of _runNextInGuard was moved from, and the session cleaned up
catchDBException(w, t) ==
    LET w1 == destroyGuard(w, t)
        w2 == IF w1.env.crashed THEN w1 ELSE ThreadGuard(w1, t)
    IN  IF w2.env.crashed THEN w2
        ELSE cleanupSession(storeState(w2, "EndSession"), t)

\* _runNextInGuard, catch (const std::exception&): quickExit(EXIT_UNCAUGHT)
\* ends the process
catchStdException(w, t) == [w EXCEPT !.env.crashed = TRUE]

\* ServiceStateMachine::_processMessage; handleRequest answers with a
\* response (exhaust or not), with none, or throws
SsmProcessMessage(t, outcome) ==
    LET w0 == [SsmWorld EXCEPT
                  !.env.handled = @ + 1,
                  !.env.plain = @ /\ outcome \notin {"exhaust", "empty"}]
    IN  CASE outcome = "response" \/ outcome = "exhaust" ->
               \* _sinkMessage
               /\ SsmCommit(release(storeState(
                                [w0 EXCEPT
                                    !.ssm.inExhaust = (outcome = "exhaust")],
                                "SinkWait"), t),
                            t :> "idle")
               /\ ticket' = "sink"
               /\ UNCHANGED ssmTasks
          [] outcome = "empty" ->
               /\ SsmCommit([storeState(w0, "Source") EXCEPT
                                !.thread[t].flags = "kDeferredTask"],
                            t :> "schedule")
               /\ UNCHANGED <<ticket, ssmTasks>>
          [] outcome = "exception" ->
               /\ SsmCommit(catchDBException(w0, t), t :> "idle")
               /\ UNCHANGED <<ticket, ssmTasks>>
          [] outcome = "stdException" ->
               /\ SsmCommit(catchStdException(w0, t), t :> "idle")
               /\ UNCHANGED <<ticket, ssmTasks>>

\* ServiceStateMachine::_runNextInGuard
SsmRunNextInGuard(t, outcome) ==
    /\ ~ssmEnv.crashed
    /\ thread[t].pc = "runNext"
    /\ LET curState == IF ssm.state = "Created" THEN "Source" ELSE ssm.state
           w == IF ssm.state = "Created"
                THEN storeState(SsmWorld, "Source") ELSE SsmWorld
       IN  CASE curState = "Source" ->
                  \* _session()->sourceMessage() may throw
                  CASE outcome = "response" -> SsmSourceMessage(w, t)
                    [] outcome = "exception" ->
                         /\ SsmCommit(catchDBException(w, t), t :> "idle")
                         /\ UNCHANGED <<ticket, ssmTasks>>
                    [] outcome = "stdException" ->
                         /\ SsmCommit(catchStdException(w, t), t :> "idle")
                         /\ UNCHANGED <<ticket, ssmTasks>>
                    [] OTHER -> FALSE
             [] curState = "Process" ->
                  SsmProcessMessage(t, outcome)
             [] curState = "EndSession" ->
                  /\ outcome = "response"
                  /\ SsmCommit(cleanupSession(SsmWorld, t), t :> "idle")
                  /\ ticket' = "none"
                  /\ UNCHANGED ssmTasks
             [] OTHER ->
                  \* MONGO_UNREACHABLE
                  /\ outcome = "response"
                  /\ SsmCommit([SsmWorld EXCEPT !.env.crashed = TRUE],
                               t :> "idle")
                  /\ UNCHANGED <<ticket, ssmTasks>>

\* ServiceStateMachine::_sourceCallback, up to the call that follows it
SsmSourceCallback(t, ok) ==
    /\ CanEnter(t)
    /\ ticket = "source"
    /\ ok => ssmEnv.handled < MaxMessages
    /\ ticket' = "none"
    /\ LET w == ThreadGuard(SsmWorld, t)
       IN  IF w.env.crashed THEN SsmCommit(w, t :> "idle")
           ELSE IF ok
           THEN SsmCommit([storeState(w, "Process") EXCEPT
                              !.env.received = @ + 1,
                              !.thread[t].flags = "kMayRecurse"],
                          t :> "schedule")
           ELSE SsmCommit(storeState(w, "EndSession"), t :> "runNext")
    /\ UNCHANGED ssmTasks

\* as SsmSinkCallback, but _inExhaust is not looked at
SsmSinkCallbackNoExhaust(t, ok) ==
    /\ CanEnter(t)
    /\ ticket = "sink"
    /\ (ok /\ ssm.inExhaust) => ssmEnv.handled < MaxMessages
    /\ ticket' = "none"
    /\ LET w == ThreadGuard(SsmWorld, t)
       IN  IF w.env.crashed THEN SsmCommit(w, t :> "idle")
           ELSE IF ~ok
           THEN SsmCommit(storeState(w, "EndSession"), t :> "runNext")
           ELSE SsmCommit([storeState(w, "Source")
                              EXCEPT !.thread[t].flags =
                                         "kDeferredTask|kMayYield"],
                          t :> "schedule")
    /\ UNCHANGED ssmTasks

\* ServiceStateMachine::_sinkCallback, up to the call that follows it
SsmSinkCallback(t, ok) ==
    /\ CanEnter(t)
    /\ ticket = "sink"
    /\ (ok /\ ssm.inExhaust) => ssmEnv.handled < MaxMessages
    /\ ticket' = "none"
    /\ LET w == ThreadGuard(SsmWorld, t)
       IN  IF w.env.crashed THEN SsmCommit(w, t :> "idle")
           ELSE IF ~ok
           THEN SsmCommit(storeState(w, "EndSession"), t :> "runNext")
           ELSE SsmCommit([storeState(w, IF w.ssm.inExhaust
                                         THEN "Process" ELSE "Source")
                              EXCEPT !.thread[t].flags =
                                         "kDeferredTask|kMayYield"],
                          t :> "schedule")
    /\ UNCHANGED ssmTasks

\* the state after ServiceStateMachine::create and setCleanupHook
SsmInit(debug) ==
    /\ ssm = [state |-> "Created", owned |-> "kUnowned", owningThread |-> 0,
              dbClient |-> 0, oldThreadName |-> "",
              cleanupHook |-> TRUE, inExhaust |-> FALSE]
    /\ thread = [t \in Threads |->
                    [pc |-> "idle", haveTakenOwnership |-> FALSE,
                     name |-> OwnThreadName, flags |-> "kEmptyFlags"]]
    /\ ssmTasks = << >>
    /\ ticket = "none"
    /\ ssmEnv = [debugBuild |-> debug, crashed |-> FALSE, started |-> FALSE,
                 ownershipModel |-> "kOwned", staticThread |-> 0,
                 hookCalls |-> 0, handled |-> 0, stores |-> <<>>,
                 received |-> 0, plain |-> TRUE]

SsmProtocol ==
    \/ \E t \in Threads, m \in {"kOwned", "kStatic"} : SsmStart(t, m)
    \/ \E t \in Threads, ok \in BOOLEAN : SsmScheduleNextWithGuard(t, ok)
    \/ \E t \in Threads : SsmTerminate(t)
    \/ \E t \in Threads : SsmRunTask(t)
    \/ \E t \in Threads,
          o \in {"response", "exhaust", "empty", "exception",
                 "stdException"} :
            SsmRunNextInGuard(t, o)
    \/ \E t \in Threads, ok \in BOOLEAN : SsmSourceCallback(t, ok)
    \/ \E t \in Threads, ok \in BOOLEAN : SsmSinkCallback(t, ok)


(***************************************************************************)
(* ServiceExecutorAdaptive (transport/service_executor_adaptive.cpp).       *)
(*                                                                         *)
(* Worker threads live in a fixed set of slots; a slot whose pc is "free"   *)
(* holds no thread, so _threads is the set of slots that are not free.      *)
(* Time is not measured: whether a wait timed out, and how many ticks a     *)
(* slice or a task took, are inputs of the step that reads the clock.       *)
(***************************************************************************)
NumAdWorkers == 2
NumAdTasks == 2
\* further tasks, which only a running task passes to schedule()
NumAdNested == 1
\* ticks a worker's slice can last
MaxTicks == 1
\* ticks the running timers can reach together where they are followed
MaxRunningTotal == 2
\* adaptiveServiceExecutorRecursionLimit, a server parameter, set small
AdRecursionLimit == 3
\* adaptiveServiceExecutorReservedThreads
ReservedThreads == 1
\* batches of reserve threads counted while one blockage lasts
MaxBatches == 2
\* adaptiveServiceExecutorIdlePctThreshold
IdlePctThreshold == 60

AdWorkers == 1..NumAdWorkers
AdTasks == 1..NumAdTasks
AdNestedTasks == (NumAdTasks + 1)..(NumAdTasks + NumAdNested)
ScheduleFlags == {{}, {"kDeferredTask"}, {"kMayRecurse"}}

\* running: the total of the thread's running timer
FreeWorker == [pc |-> "free", stillPending |-> FALSE, stack |-> <<>>,
               executingCurRun |-> 0, running |-> 0]
NewWorker == [pc |-> "top", stillPending |-> TRUE, stack |-> <<>>,
              executingCurRun |-> 0, running |-> 0]

AdWorld == [ad |-> ad, wk |-> adWorker]

FreeSlots(x) == {w \in AdWorkers : x.wk[w].pc = "free"}

\* the pending counter a task's flags select
pendingCounter(flags) ==
    IF "kDeferredTask" \in flags THEN "deferredTasksQueued" ELSE "tasksQueued"

\* as isStuck, but the time since the last schedule() is not looked at
isStuckWhateverScheduled(a) == a.threadsInUse = a.threadsRunning

\* as isStuck, but the threads in use are not compared with those running
isStuckWhateverInUse(a) == ~a.scheduledThisWait

\* the test of the controller's stuck-thread round: every running thread is
\* in a task and nothing was scheduled for stuckThreadTimeout
isStuck(a) == a.threadsInUse = a.threadsRunning /\ ~a.scheduledThisWait

\* as isStarved, but the threads still pending are not looked at
isStarvedWhateverPending(a) ==
    IF a.tasksQueued = 0 THEN FALSE
    ELSE a.tasksQueued > a.threadsRunning - a.threadsInUse

isStarved(a) ==
    IF a.threadsPending > 0 THEN FALSE
    ELSE IF a.tasksQueued = 0 THEN FALSE
    ELSE a.tasksQueued > a.threadsRunning - a.threadsInUse

\* _startWorkerThread; ok says whether launchServiceWorkerThread succeeded
startWorkerThread(x, ok) ==
    IF ok
    THEN LET w == CHOOSE v \in FreeSlots(x) : \A u \in FreeSlots(x) : v <= u
         IN  [ad |-> [x.ad EXCEPT !.threadsPending = @ + 1,
                                  !.threadsRunning = @ + 1],
              wk |-> [x.wk EXCEPT ![w] = NewWorker]]
    ELSE [x EXCEPT !.ad.launchFailed = TRUE]

RECURSIVE startReservedThreads(_, _, _)
startReservedThreads(x, n, ok) ==
    IF n = 0 THEN x
    ELSE startReservedThreads(startWorkerThread(x, ok), n - 1, ok)

\* while (_threadsRunning.load() < reservedThreads) _startWorkerThread();
\* the loop ends only once enough launches have succeeded
RECURSIVE replenishReserved(_)
replenishReserved(x) ==
    IF x.ad.threadsRunning >= ReservedThreads THEN x
    ELSE replenishReserved(startWorkerThread(x, TRUE))

\* the sum of thread.running.totalTime() over the threads of _threads
RECURSIVE SumRunning(_, _)
SumRunning(wk, slots) ==
    IF slots = {} THEN 0
    ELSE LET w == CHOOSE v \in slots : TRUE
         IN  (IF wk[w].pc = "free" THEN 0 ELSE wk[w].running)
                 + SumRunning(wk, slots \ {w})

\* as afterEnqueue, but a deferred task signals starvation as well
afterEnqueueAnyFlags(a, flags) ==
    LET a1 == [a EXCEPT !.scheduledThisWait = TRUE, !.totalQueued = @ + 1]
    IN  IF isStarved(a1) THEN [a1 EXCEPT !.notified = TRUE] ELSE a1

\* the end of schedule() once the wrapped task is posted or dispatched
afterEnqueue(a, flags) ==
    LET a1 == [a EXCEPT !.scheduledThisWait = TRUE, !.totalQueued = @ + 1]
    IN  IF isStarved(a1) /\ "kDeferredTask" \notin flags
        THEN [a1 EXCEPT !.notified = TRUE]
        ELSE a1

\* as pctExecuting, but every slice counts as idle
pctExecutingNone(executing, spentRunning) == {0}

\* static_cast<int>(executingCurRun / double(spentRunning) * 100); with a
\* zero denominator the cast of inf or NaN is undefined: any outcome
pctExecuting(executing, spentRunning) ==
    IF spentRunning = 0 THEN {0, 100}
    ELSE {(executing * 100) \div spentRunning}

AdStart(ok) ==
    /\ adCtl.pc = "off" /\ ~ad.isRunning /\ adShut.pc = "idle"
    /\ ok => Cardinality(FreeSlots(AdWorld)) >= ReservedThreads
    /\ LET x == startReservedThreads(
                    [AdWorld EXCEPT !.ad.isRunning = TRUE],
                    ReservedThreads, ok)
       IN  ad' = x.ad /\ adWorker' = x.wk
    /\ adCtl' = [adCtl EXCEPT !.pc = "wait"]
    /\ UNCHANGED <<adTask, adShut>>
    /\ UNCHANGED adOthers

\* as AdScheduleCheck, but _isRunning is not looked at
AdScheduleCheckNotLooking(k, flags) ==
    /\ adTask[k].status = "new"
    /\ "kMayRecurse" \notin flags
    /\ ad' = [ad EXCEPT ![pendingCounter(flags)] = @ + 1]
    /\ adTask' = [adTask EXCEPT ![k].status = "checked", ![k].flags = flags]
    /\ adCtl' = [adCtl EXCEPT !.batches = 0]
    /\ UNCHANGED <<adWorker, adShut>>
    /\ UNCHANGED adOthers

\* schedule() from a thread that is not a worker, up to the _isRunning check
AdScheduleCheck(k, flags) ==
    /\ adTask[k].status = "new"
    /\ "kMayRecurse" \notin flags
    /\ ad' = [ad EXCEPT ![pendingCounter(flags)] = @ + 1]
    /\ adTask' = [adTask EXCEPT ![k] =
            IF ad.isRunning
            THEN [@ EXCEPT !.status = "checked", !.flags = flags]
            ELSE [@ EXCEPT !.status = "rejected", !.flags = flags,
                           !.returned = "ShutdownInProgress"]]
    /\ adCtl' = [adCtl EXCEPT !.batches = 0]
    /\ UNCHANGED <<adWorker, adShut>>
    /\ UNCHANGED adOthers

\* the rest of that call: post the wrapped task and return OK
AdSchedulePost(k) ==
    /\ adTask[k].status = "checked"
    /\ ad' = afterEnqueue([ad EXCEPT !.ioQueue = Append(@, k)],
                          adTask[k].flags)
    /\ adTask' = [adTask EXCEPT ![k].status = "queued", ![k].returned = "OK"]
    /\ adCtl' = [adCtl EXCEPT !.batches = 0]
    /\ UNCHANGED <<adWorker, adShut>>
    /\ UNCHANGED adOthers

\* as AdScheduleInTask, but the recursion depth is not looked at
AdScheduleInTaskAnyDepth(w, k, flags) ==
    /\ adWorker[w].pc = "inTask"
    /\ adTask[k].status = "new"
    /\ LET a1 == [ad EXCEPT ![pendingCounter(flags)] = @ + 1]
           depth == Len(adWorker[w].stack)
       IN  IF ~ad.isRunning
           THEN /\ ad' = a1
                /\ adTask' = [adTask EXCEPT ![k].status = "rejected",
                                  ![k].flags = flags,
                                  ![k].returned = "ShutdownInProgress"]
                /\ UNCHANGED adWorker
           ELSE IF "kMayRecurse" \in flags
           THEN \* dispatch: the wrapped task starts on this stack
                /\ ad' = [a1 EXCEPT ![pendingCounter(flags)] = @ - 1]
                /\ adWorker' = [adWorker EXCEPT ![w].stack = Append(@, k)]
                /\ adTask' = [adTask EXCEPT ![k].status = "running",
                                  ![k].flags = flags, ![k].runs = @ + 1]
           ELSE /\ ad' = afterEnqueue([a1 EXCEPT !.ioQueue = Append(@, k)],
                                      flags)
                /\ adTask' = [adTask EXCEPT ![k].status = "queued",
                                  ![k].flags = flags, ![k].returned = "OK"]
                /\ UNCHANGED adWorker
    /\ adCtl' = [adCtl EXCEPT !.batches = 0]
    /\ UNCHANGED adShut
    /\ UNCHANGED adOthers

\* schedule() called by the task a worker is running
AdScheduleInTask(w, k, flags) ==
    /\ adWorker[w].pc = "inTask"
    /\ adTask[k].status = "new"
    /\ LET a1 == [ad EXCEPT ![pendingCounter(flags)] = @ + 1]
           depth == Len(adWorker[w].stack)
       IN  IF ~ad.isRunning
           THEN /\ ad' = a1
                /\ adTask' = [adTask EXCEPT ![k].status = "rejected",
                                  ![k].flags = flags,
                                  ![k].returned = "ShutdownInProgress"]
                /\ UNCHANGED adWorker
           ELSE IF "kMayRecurse" \in flags /\ depth + 1 < AdRecursionLimit
           THEN \* dispatch: the wrapped task starts on this stack
                /\ ad' = [a1 EXCEPT ![pendingCounter(flags)] = @ - 1]
                /\ adWorker' = [adWorker EXCEPT ![w].stack = Append(@, k)]
                /\ adTask' = [adTask EXCEPT ![k].status = "running",
                                  ![k].flags = flags, ![k].runs = @ + 1]
           ELSE /\ ad' = afterEnqueue([a1 EXCEPT !.ioQueue = Append(@, k)],
                                      flags)
                /\ adTask' = [adTask EXCEPT ![k].status = "queued",
                                  ![k].flags = flags, ![k].returned = "OK"]
                /\ UNCHANGED adWorker
    /\ adCtl' = [adCtl EXCEPT !.batches = 0]
    /\ UNCHANGED adShut
    /\ UNCHANGED adOthers

\* top of the worker's while (_isRunning.load()) loop
AdWorkerLoopTop(w) ==
    /\ adWorker[w].pc = "top"
    /\ adWorker' = [adWorker EXCEPT ![w] =
            IF ad.isRunning
            THEN [@ EXCEPT !.pc = "run", !.executingCurRun = 0]
            ELSE [@ EXCEPT !.pc = "exiting"]]
    /\ UNCHANGED <<ad, adTask, adCtl, adShut>>
    /\ UNCHANGED adOthers

\* run_for / run_one_for takes the next handler: the wrapped task starts
AdWorkerBeginTask(w) ==
    /\ adWorker[w].pc = "run"
    /\ ad.ioQueue # <<>> /\ ~ad.ioStopped
    /\ LET k == Head(ad.ioQueue)
       IN  /\ ad' = [ad EXCEPT !.ioQueue = Tail(@),
                        ![pendingCounter(adTask[k].flags)] = @ - 1,
                        !.threadsInUse = @ + 1]
           /\ adWorker' = [adWorker EXCEPT ![w].pc = "inTask",
                                           ![w].stack = <<k>>]
           /\ adTask' = [adTask EXCEPT ![k].status = "running",
                                       ![k].runs = @ + 1]
    /\ adCtl' = [adCtl EXCEPT !.batches = 0]
    /\ UNCHANGED adShut
    /\ UNCHANGED adOthers

\* the innermost task on the worker's stack returns, or throws; ticks is the
\* time the outermost task is measured to have taken
AdWorkerEndTask(w, throws, ticks, ok) ==
    /\ adWorker[w].pc = "inTask"
    /\ LET stack == adWorker[w].stack
           k == stack[Len(stack)]
           rest == SubSeq(stack, 1, Len(stack) - 1)
           spent == IF adWorker[w].executingCurRun + ticks > MaxTicks
                    THEN MaxTicks
                    ELSE adWorker[w].executingCurRun + ticks
       IN  IF throws
           THEN \* every guard on the stack runs, then the catch block
                /\ ok => FreeSlots(AdWorld) # {}
                /\ LET x == startWorkerThread(
                         [ad |-> [ad EXCEPT !.threadsInUse = @ - 1,
                                     !.totalExecuted = @ + Len(stack)],
                          wk |-> [adWorker EXCEPT ![w].stack = <<>>,
                                     ![w].executingCurRun = spent,
                                     ![w].pc = "exiting"]], ok)
                   IN  ad' = x.ad /\ adWorker' = x.wk
                /\ adTask' = [j \in AdTasks \cup AdNestedTasks |->
                       IF \E i \in 1..Len(stack) : stack[i] = j
                       THEN [adTask[j] EXCEPT !.status = "done"]
                       ELSE adTask[j]]
           ELSE IF rest = <<>>
           THEN /\ ~ok
                /\ ad' = [ad EXCEPT !.threadsInUse = @ - 1,
                                    !.totalExecuted = @ + 1]
                /\ adWorker' = [adWorker EXCEPT ![w].stack = <<>>,
                       ![w].executingCurRun = spent,
                       ![w].pc = IF adWorker[w].stillPending
                                 THEN "sliceEnd" ELSE "run"]
                /\ adTask' = [adTask EXCEPT ![k].status = "done"]
           ELSE \* back in the outer task's schedule(), after dispatch
                /\ ticks = 0 /\ ~ok
                /\ ad' = afterEnqueue([ad EXCEPT !.totalExecuted = @ + 1],
                                      adTask[k].flags)
                /\ adWorker' = [adWorker EXCEPT ![w].stack = rest]
                /\ adTask' = [adTask EXCEPT ![k].status = "done",
                                            ![k].returned = "OK"]
    /\ adCtl' = [adCtl EXCEPT !.batches = 0]
    /\ UNCHANGED adShut
    /\ UNCHANGED adOthers

\* run_for / run_one_for returns: its time is up or the io_context stopped
AdWorkerRunReturns(w) ==
    /\ adWorker[w].pc = "run"
    /\ adWorker' = [adWorker EXCEPT ![w].pc = "sliceEnd"]
    /\ UNCHANGED <<ad, adTask, adCtl, adShut>>
    /\ UNCHANGED adOthers

\* after the slice: restart a stopped io_context, then decide whether to
\* go on; the thread leaves the loop here but has not yet run its exit guard
AdWorkerSliceEnd(w, spentRunning, pct) ==
    /\ adWorker[w].pc = "sliceEnd"
    /\ spentRunning \in adWorker[w].executingCurRun..MaxTicks
    /\ pct \in pctExecuting(adWorker[w].executingCurRun, spentRunning)
    /\ IF adWorker[w].stillPending
       THEN /\ ad' = [ad EXCEPT !.ioStopped = FALSE,
                                !.threadsPending = @ - 1]
            /\ adWorker' = [adWorker EXCEPT ![w].stillPending = FALSE,
                                            ![w].pc = "top"]
       ELSE /\ ad' = [ad EXCEPT !.ioStopped = FALSE]
            /\ adWorker' = [adWorker EXCEPT ![w].pc =
                   IF ad.threadsRunning > ReservedThreads
                      /\ pct < IdlePctThreshold
                   THEN "exiting" ELSE "top"]
    /\ UNCHANGED <<adTask, adCtl, adShut>>
    /\ UNCHANGED adOthers

\* as AdWorkerExit, but a thread that is still pending stays counted
AdWorkerExitKeepsPending(w) ==
    /\ adWorker[w].pc = "exiting"
    /\ ad' = [ad EXCEPT !.threadsRunning = @ - 1]
    /\ adWorker' = [adWorker EXCEPT ![w] = FreeWorker]
    /\ UNCHANGED <<adTask, adCtl, adShut>>
    /\ UNCHANGED adOthers

\* the guard that runs when the worker routine returns
AdWorkerExit(w) ==
    /\ adWorker[w].pc = "exiting"
    /\ ad' = [ad EXCEPT !.threadsRunning = @ - 1,
                 !.threadsPending =
                     IF adWorker[w].stillPending THEN @ - 1 ELSE @]
    /\ adWorker' = [adWorker EXCEPT ![w] = FreeWorker]
    /\ UNCHANGED <<adTask, adCtl, adShut>>
    /\ UNCHANGED adOthers

\* the worker's slice ends, with its running timer followed:
\* state->running.markStopped() adds the slice to the timer's total
AdWorkerSliceEndTimed(w, spentRunning, pct) ==
    /\ adWorker[w].pc = "sliceEnd"
    /\ spentRunning \in adWorker[w].executingCurRun..MaxTicks
    /\ ad.pastThreadsSpentRunning + SumRunning(adWorker, AdWorkers)
           + spentRunning <= MaxRunningTotal
    /\ pct \in pctExecuting(adWorker[w].executingCurRun, spentRunning)
    /\ IF adWorker[w].stillPending
       THEN /\ ad' = [ad EXCEPT !.ioStopped = FALSE,
                                !.threadsPending = @ - 1]
            /\ adWorker' = [adWorker EXCEPT ![w].stillPending = FALSE,
                                            ![w].running = @ + spentRunning,
                                            ![w].pc = "top"]
       ELSE /\ ad' = [ad EXCEPT !.ioStopped = FALSE]
            /\ adWorker' = [adWorker EXCEPT
                   ![w].running = @ + spentRunning,
                   ![w].pc = IF ad.threadsRunning > ReservedThreads
                                /\ pct < IdlePctThreshold
                             THEN "exiting" ELSE "top"]
    /\ UNCHANGED <<adTask, adCtl, adShut>>
    /\ UNCHANGED adOthers

\* the exit guard up to the fold of the thread's timers into the totals of
\* past threads
AdWorkerExitFold(w) ==
    /\ adWorker[w].pc = "exiting"
    /\ ad' = [ad EXCEPT !.threadsRunning = @ - 1,
                 !.threadsPending =
                     IF adWorker[w].stillPending THEN @ - 1 ELSE @,
                 !.pastThreadsSpentRunning = @ + adWorker[w].running]
    /\ adWorker' = [adWorker EXCEPT ![w].pc = "erasing"]
    /\ UNCHANGED <<adTask, adCtl, adShut>>
    /\ UNCHANGED adOthers

\* the rest of the exit guard: _threads.erase(state) under _threadsMutex
AdWorkerExitErase(w) ==
    /\ adWorker[w].pc = "erasing"
    /\ adWorker' = [adWorker EXCEPT ![w] = FreeWorker]
    /\ UNCHANGED <<ad, adTask, adCtl, adShut>>
    /\ UNCHANGED adOthers

\* _getThreadTimerTotal(ThreadTimer::Running) up to the mutex: the total of
\* past threads is loaded
AdGetThreadTimerTotalLoad ==
    /\ ad.isRunning /\ ~adCtl.reading
    /\ adCtl' = [adCtl EXCEPT !.reading = TRUE,
                     !.accumulator = ad.pastThreadsSpentRunning]
    /\ UNCHANGED <<ad, adWorker, adTask, adShut>>
    /\ UNCHANGED adOthers

\* the rest of the call: under _threadsMutex the timers of the threads in
\* _threads are added; the caller keeps the result for its next delta
AdGetThreadTimerTotalSum ==
    /\ adCtl.reading
    /\ adCtl' = [adCtl EXCEPT !.reading = FALSE,
                     !.lastSpentRunning =
                         adCtl.accumulator + SumRunning(adWorker, AdWorkers)]
    /\ UNCHANGED <<ad, adWorker, adTask, adShut>>
    /\ UNCHANGED adOthers

\* the controller returns from wait_for and runs its loop body up to the
\* sleep; early: it woke before stuckThreadTimeout had passed
AdControllerWake(early, utilizationPct, ok) ==
    /\ adCtl.pc = "wait"
    /\ IF ~ad.isRunning
       THEN /\ adCtl' = [adCtl EXCEPT !.pc = "done"]
            /\ UNCHANGED <<ad, adWorker>>
       ELSE IF ~early
       THEN \* stuck-thread round, then continue
            LET stuck == isStuck(ad)
                x == IF stuck
                     THEN startReservedThreads(AdWorld, ReservedThreads, ok)
                     ELSE AdWorld
            IN  /\ (stuck /\ ok) =>
                       /\ Cardinality(FreeSlots(AdWorld)) >= ReservedThreads
                       /\ adCtl.batches < MaxBatches
                /\ ad' = [x.ad EXCEPT !.notified = FALSE,
                                      !.scheduledThisWait = FALSE]
                /\ adWorker' = x.wk
                /\ adCtl' = [adCtl EXCEPT !.completedRound = TRUE,
                                 !.batches = IF stuck /\ ok THEN @ + 1 ELSE @]
       ELSE LET x == replenishReserved(AdWorld)
            IN  /\ ~ok
                /\ Cardinality(FreeSlots(AdWorld))
                       >= ReservedThreads - ad.threadsRunning
                /\ adWorker' = x.wk
                /\ IF utilizationPct < IdlePctThreshold
                   THEN /\ ad' = [x.ad EXCEPT !.notified = FALSE,
                                       !.scheduledThisWait = FALSE]
                        /\ adCtl' = [adCtl EXCEPT !.completedRound = TRUE]
                   ELSE /\ ad' = x.ad
                        /\ adCtl' = [adCtl EXCEPT !.pc = "sleep"]
    /\ UNCHANGED <<adTask, adShut>>
    /\ UNCHANGED adOthers

\* the sleep loop ends (no thread pending, or the round ran out of time);
\* one more worker if the pool is still starved
AdControllerSleepDone(ok) ==
    /\ adCtl.pc = "sleep"
    /\ (isStarved(ad) /\ ok) => FreeSlots(AdWorld) # {}
    /\ LET x == IF isStarved(ad) THEN startWorkerThread(AdWorld, ok)
                ELSE AdWorld
       IN  /\ ad' = [x.ad EXCEPT !.notified = FALSE,
                                 !.scheduledThisWait = FALSE]
           /\ adWorker' = x.wk
    /\ adCtl' = [adCtl EXCEPT !.pc = "wait", !.completedRound = TRUE]
    /\ UNCHANGED <<adTask, adShut>>
    /\ UNCHANGED adOthers

\* shutdown(): clear _isRunning, wake the controller, then join it
AdShutdownBegin ==
    /\ adShut.pc = "idle" /\ ad.isRunning
    /\ ad' = [ad EXCEPT !.isRunning = FALSE, !.notified = TRUE]
    /\ adShut' = [adShut EXCEPT !.pc = "join"]
    /\ UNCHANGED <<adWorker, adTask, adCtl>>
    /\ UNCHANGED adOthers

\* the controller has been joined: stop the io_context
AdShutdownStop ==
    /\ adShut.pc = "join" /\ adCtl.pc = "done"
    /\ ad' = [ad EXCEPT !.ioStopped = TRUE]
    /\ adShut' = [adShut EXCEPT !.pc = "wait"]
    /\ UNCHANGED <<adWorker, adTask, adCtl>>
    /\ UNCHANGED adOthers

\* shutdown() finds _isRunning false (never started, or shut down before)
\* and returns OK at once
AdShutdownNotRunning ==
    /\ adShut.pc \in {"idle", "done"} /\ ~ad.isRunning
    /\ adShut' = [pc |-> "done", result |-> "OK"]
    /\ UNCHANGED <<ad, adWorker, adTask, adCtl>>
    /\ UNCHANGED adOthers

\* as AdShutdownReturn, but the result does not depend on _threads
AdShutdownReturnUnchecked(timedOut) ==
    /\ adShut.pc = "wait"
    /\ adShut' = [pc |-> "done",
                  result |-> IF timedOut THEN "ExceededTimeLimit" ELSE "OK"]
    /\ UNCHANGED <<ad, adWorker, adTask, adCtl>>
    /\ UNCHANGED adOthers

\* _deathCondition.wait_for returns: _threads is empty, or time is up
AdShutdownReturn(timedOut) ==
    /\ adShut.pc = "wait"
    /\ timedOut = (FreeSlots(AdWorld) # AdWorkers)
    /\ adShut' = [pc |-> "done",
                  result |-> IF timedOut THEN "ExceededTimeLimit" ELSE "OK"]
    /\ UNCHANGED <<ad, adWorker, adTask, adCtl>>
    /\ UNCHANGED adOthers

AdInit ==
    /\ ad = [isRunning |-> FALSE, threadsPending |-> 0, threadsRunning |-> 0,
             threadsInUse |-> 0, tasksQueued |-> 0,
             deferredTasksQueued |-> 0, totalQueued |-> 0,
             totalExecuted |-> 0, ioQueue |-> <<>>, ioStopped |-> FALSE,
             notified |-> FALSE, scheduledThisWait |-> FALSE,
             launchFailed |-> FALSE, pastThreadsSpentRunning |-> 0]
    /\ adWorker = [w \in AdWorkers |-> FreeWorker]
    /\ adTask = [k \in AdTasks \cup AdNestedTasks |->
                    [status |-> "new", flags |-> {}, returned |-> "none",
                     runs |-> 0]]
    /\ adCtl = [pc |-> "off", completedRound |-> FALSE, batches |-> 0,
                reading |-> FALSE, accumulator |-> 0, lastSpentRunning |-> 0]
    /\ adShut = [pc |-> "idle", result |-> "none"]

AdNext ==
    \/ \E ok \in BOOLEAN : AdStart(ok)
    \/ \E k \in AdTasks, f \in ScheduleFlags : AdScheduleCheck(k, f)
    \/ \E k \in AdTasks : AdSchedulePost(k)
    \/ \E w \in AdWorkers, k \in AdTasks, f \in ScheduleFlags :
           AdScheduleInTask(w, k, f)
    \/ \E w \in AdWorkers : AdWorkerLoopTop(w)
    \/ \E w \in AdWorkers : AdWorkerBeginTask(w)
    \/ \E w \in AdWorkers, throws \in BOOLEAN, ticks \in 0..1,
          ok \in BOOLEAN : AdWorkerEndTask(w, throws, ticks, ok)
    \/ \E w \in AdWorkers : AdWorkerRunReturns(w)
    \/ \E w \in AdWorkers, spent \in 0..MaxTicks, pct \in {0, 100} :
           AdWorkerSliceEnd(w, spent, pct)
    \/ \E w \in AdWorkers : AdWorkerExit(w)
    \/ \E early \in BOOLEAN, u \in {0, 100}, ok \in BOOLEAN :
           AdControllerWake(early, u, ok)
    \/ \E ok \in BOOLEAN : AdControllerSleepDone(ok)
    \/ AdShutdownBegin
    \/ AdShutdownNotRunning
    \/ AdShutdownStop
    \/ \E timedOut \in BOOLEAN : AdShutdownReturn(timedOut)

(***************************************************************************)
(* ServiceExecutorSynchronous (transport/service_executor_synchronous.cpp). *)
(*                                                                         *)
(* A thread other than a worker has an empty thread_local queue, so its     *)
(* schedule() launches a worker; a task running on a worker finds the      *)
(* queue non-empty, since the running task is popped only after it returns. *)
(***************************************************************************)
NumSyThreads == 2
NumSyTasks == 3
\* synchronousServiceExecutorRecursionLimit, a server parameter, set small
SyRecursionLimit == 2

SyThreads == 1..NumSyThreads
SyTasks == 1..NumSyTasks
SyFlags == SUBSET {"kMayRecurse", "kMayYieldBeforeSchedule"}

SyFreeThread == [pc |-> "free", localWorkQueue |-> <<>>,
                 localRecursionDepth |-> 0, stack |-> <<>>]

SyFreeSlots == {t \in SyThreads : syThread[t].pc = "free"}

SyExecutorStart ==
    /\ ~sy.started
    /\ sy' = [sy EXCEPT !.started = TRUE, !.stillRunning = TRUE]
    /\ UNCHANGED <<syThread, syTask, syShut>>
    /\ UNCHANGED syOthers

\* schedule() on a thread that is not a worker: the first call for a
\* connection; ok says whether launchServiceWorkerThread succeeded
SyScheduleLaunch(k, ok) ==
    /\ syTask[k].status = "new"
    /\ IF ~sy.stillRunning
       THEN /\ syTask' = [syTask EXCEPT ![k].status = "rejected",
                              ![k].returned = "ShutdownInProgress"]
            /\ ~ok
            /\ UNCHANGED syThread
       ELSE IF ok
       THEN /\ SyFreeSlots # {}
            /\ LET t == CHOOSE v \in SyFreeSlots :
                            \A u \in SyFreeSlots : v <= u
               IN  syThread' = [syThread EXCEPT ![t] =
                       [SyFreeThread EXCEPT !.pc = "launched",
                                            !.stack = <<k>>]]
            /\ syTask' = [syTask EXCEPT ![k].status = "accepted",
                              ![k].returned = "OK"]
       ELSE /\ syTask' = [syTask EXCEPT ![k].status = "rejected",
                              ![k].returned = "LaunchFailed"]
            /\ UNCHANGED syThread
    /\ UNCHANGED <<sy, syShut>>
    /\ UNCHANGED syOthers

\* the new thread starts: count it and put the captured task in its queue
SyThreadBegin(t) ==
    /\ syThread[t].pc = "launched"
    /\ sy' = [sy EXCEPT !.numRunningWorkerThreads = @ + 1]
    /\ syThread' = [syThread EXCEPT ![t].pc = "loop",
                        ![t].localWorkQueue = syThread[t].stack,
                        ![t].stack = <<>>]
    /\ UNCHANGED <<syTask, syShut>>
    /\ UNCHANGED syOthers

\* as SyLoop, but the recursion depth is left as it is
SyLoopKeepsDepth(t) ==
    /\ syThread[t].pc = "loop"
    /\ IF syThread[t].localWorkQueue # <<>> /\ sy.stillRunning
       THEN LET k == Head(syThread[t].localWorkQueue)
            IN  /\ syThread' = [syThread EXCEPT ![t].pc = "inTask",
                                    ![t].stack = <<k>>]
                /\ syTask' = [syTask EXCEPT ![k].status = "running",
                                            ![k].runs = @ + 1]
       ELSE /\ syThread' = [syThread EXCEPT ![t].pc = "exit"]
            /\ UNCHANGED syTask
    /\ UNCHANGED <<sy, syShut>>
    /\ UNCHANGED syOthers

\* as SyLoop, but the task is popped from the queue before it runs
SyLoopPopsFirst(t) ==
    /\ syThread[t].pc = "loop"
    /\ IF syThread[t].localWorkQueue # <<>> /\ sy.stillRunning
       THEN LET k == Head(syThread[t].localWorkQueue)
            IN  /\ syThread' = [syThread EXCEPT ![t].pc = "inTask",
                                    ![t].localRecursionDepth = 1,
                                    ![t].localWorkQueue = Tail(@),
                                    ![t].stack = <<k>>]
                /\ syTask' = [syTask EXCEPT ![k].status = "running",
                                            ![k].runs = @ + 1]
       ELSE /\ syThread' = [syThread EXCEPT ![t].pc = "exit"]
            /\ UNCHANGED syTask
    /\ UNCHANGED <<sy, syShut>>
    /\ UNCHANGED syOthers

\* while (!_localWorkQueue.empty() && _stillRunning.loadRelaxed())
SyLoop(t) ==
    /\ syThread[t].pc = "loop"
    /\ IF syThread[t].localWorkQueue # <<>> /\ sy.stillRunning
       THEN LET k == Head(syThread[t].localWorkQueue)
            IN  /\ syThread' = [syThread EXCEPT ![t].pc = "inTask",
                                    ![t].localRecursionDepth = 1,
                                    ![t].stack = <<k>>]
                /\ syTask' = [syTask EXCEPT ![k].status = "running",
                                            ![k].runs = @ + 1]
       ELSE /\ syThread' = [syThread EXCEPT ![t].pc = "exit"]
            /\ UNCHANGED syTask
    /\ UNCHANGED <<sy, syShut>>
    /\ UNCHANGED syOthers

\* schedule() called by the task the worker is running
SyScheduleInTask(t, k, flags) ==
    /\ syThread[t].pc = "inTask"
    /\ syTask[k].status = "new"
    /\ IF ~sy.stillRunning
       THEN /\ syTask' = [syTask EXCEPT ![k].status = "rejected",
                              ![k].returned = "ShutdownInProgress"]
            /\ UNCHANGED syThread
       ELSE IF "kMayRecurse" \in flags
               /\ syThread[t].localRecursionDepth < SyRecursionLimit
       THEN /\ syThread' = [syThread EXCEPT
                                ![t].localRecursionDepth = @ + 1,
                                ![t].stack = Append(@, k)]
            /\ syTask' = [syTask EXCEPT ![k].status = "running",
                                        ![k].runs = @ + 1]
       ELSE /\ syThread' = [syThread EXCEPT
                                ![t].localWorkQueue = Append(@, k)]
            /\ syTask' = [syTask EXCEPT ![k].status = "accepted",
                                        ![k].returned = "OK"]
    /\ UNCHANGED <<sy, syShut>>
    /\ UNCHANGED syOthers

\* the innermost running task returns: into the schedule() that ran it
\* inline, or into the loop, which then pops the queue's front
SyTaskReturn(t) ==
    /\ syThread[t].pc = "inTask"
    /\ LET stack == syThread[t].stack
           k == stack[Len(stack)]
       IN  IF Len(stack) > 1
           THEN /\ syThread' = [syThread EXCEPT
                        ![t].stack = SubSeq(stack, 1, Len(stack) - 1)]
                /\ syTask' = [syTask EXCEPT ![k].status = "done",
                                            ![k].returned = "OK"]
           ELSE /\ syThread' = [syThread EXCEPT ![t].stack = <<>>,
                        ![t].localWorkQueue = Tail(@), ![t].pc = "loop"]
                /\ syTask' = [syTask EXCEPT ![k].status = "done"]
    /\ UNCHANGED <<sy, syShut>>
    /\ UNCHANGED syOthers

\* the thread function returns; what is left in the thread_local queue is
\* destroyed with the thread
SyThreadExit(t) ==
    /\ syThread[t].pc = "exit"
    /\ sy' = [sy EXCEPT !.numRunningWorkerThreads = @ - 1,
                 !.shutdownNotified =
                     @ \/ sy.numRunningWorkerThreads - 1 = 0]
    /\ syThread' = [syThread EXCEPT ![t] = SyFreeThread]
    /\ syTask' = [k \in SyTasks |->
           IF \E i \in 1..Len(syThread[t].localWorkQueue) :
                  syThread[t].localWorkQueue[i] = k
           THEN [syTask[k] EXCEPT !.status = "dropped"]
           ELSE syTask[k]]
    /\ UNCHANGED syShut
    /\ UNCHANGED syOthers

SyShutdownBegin ==
    /\ syShut.pc = "idle" /\ sy.started
    /\ sy' = [sy EXCEPT !.stillRunning = FALSE]
    /\ syShut' = [syShut EXCEPT !.pc = "wait"]
    /\ UNCHANGED <<syThread, syTask>>
    /\ UNCHANGED syOthers

\* _shutdownCondition.wait_for returns: no thread counted, or time is up
SyShutdownReturn(timedOut) ==
    /\ syShut.pc = "wait"
    /\ timedOut = (sy.numRunningWorkerThreads # 0)
    /\ syShut' = [pc |-> "done",
                  result |-> IF timedOut THEN "ExceededTimeLimit" ELSE "OK"]
    /\ UNCHANGED <<sy, syThread, syTask>>
    /\ UNCHANGED syOthers

SyInit ==
    /\ sy = [started |-> FALSE, stillRunning |-> FALSE,
             numRunningWorkerThreads |-> 0, shutdownNotified |-> FALSE]
    /\ syThread = [t \in SyThreads |-> SyFreeThread]
    /\ syTask = [k \in SyTasks |->
                    [status |-> "new", returned |-> "none", runs |-> 0]]
    /\ syShut = [pc |-> "idle", result |-> "none"]

SyNext ==
    \/ SyExecutorStart
    \/ \E k \in SyTasks, ok \in BOOLEAN : SyScheduleLaunch(k, ok)
    \/ \E t \in SyThreads : SyThreadBegin(t)
    \/ \E t \in SyThreads : SyLoop(t)
    \/ \E t \in SyThreads, k \in SyTasks, f \in SyFlags :
           SyScheduleInTask(t, k, f)
    \/ \E t \in SyThreads : SyTaskReturn(t)
    \/ \E t \in SyThreads : SyThreadExit(t)
    \/ SyShutdownBegin
    \/ \E timedOut \in BOOLEAN : SyShutdownReturn(timedOut)

(***************************************************************************)
(* ConnectionPool and its SpecificPool for one host                         *)
(* (executor/connection_pool.cpp).                                          *)
(*                                                                         *)
(* Every entry point takes the parent's mutex, so a step is one entry point *)
(* run to its end, with the callbacks it invokes.  Dates are ticks of       *)
(* cpNow; a timer's handler runs at or after the date it was set for.       *)
(***************************************************************************)
NumConns == 3
NumReqs == 3
MaxTime == 3
\* times processFailure may run
MaxGeneration == 2
\* options: refreshTimeout, refreshRequirement, hostTimeout, in ticks
RefreshTimeout == 2
RefreshRequirement == 1
HostTimeout == 2
\* ConnectionPool::kDefaultMinConns
kDefaultMinConns == 1

Conns == 1..NumConns
Reqs == 1..NumReqs
\* Date_t::max(): later than any date a run reaches
DateMax == MaxTime + RefreshTimeout + RefreshRequirement + HostTimeout + 1

\* the (minConnections, maxConnections, maxConnecting) a pool may be given
PoolOptions ==
    {[minConnections |-> kDefaultMinConns, maxConnections |-> 2,
      maxConnecting |-> 2],
     [minConnections |-> 2, maxConnections |-> 1, maxConnecting |-> 1]}

Max(a, b) == IF a >= b THEN a ELSE b
Min(a, b) == IF a <= b THEN a ELSE b

CpWorld == [pool |-> cp, conn |-> cpConn, req |-> cpReq, now |-> cpNow,
            full |-> FALSE, locked |-> TRUE]

(***************************************************************************)
(* _requests: std::priority_queue<Request, vector, RequestComparator>, a    *)
(* binary heap kept in a sequence; a Request is <<first, second>> as a      *)
(* record: its expiration and the get() call whose callback it holds.       *)
(***************************************************************************)
RequestComparatorLater(a, b) == a.first < b.first

RequestComparator(a, b) == a.first > b.first

swap(h, i, j) == [h EXCEPT ![i] = h[j], ![j] = h[i]]

RECURSIVE siftUp(_, _)
siftUp(h, i) ==
    IF i = 1 THEN h
    ELSE LET parent == i \div 2
         IN  IF RequestComparator(h[parent], h[i])
             THEN siftUp(swap(h, parent, i), parent)
             ELSE h

RECURSIVE siftDown(_, _)
siftDown(h, i) ==
    LET l == 2 * i
        r == 2 * i + 1
    IN  IF l > Len(h) THEN h
        ELSE LET c == IF r <= Len(h) /\ RequestComparator(h[l], h[r])
                      THEN r ELSE l
             IN  IF RequestComparator(h[i], h[c])
                 THEN siftDown(swap(h, i, c), c)
                 ELSE h

push(h, x) == siftUp(Append(h, x), Len(h) + 1)
top(h) == h[1]
pop(h) ==
    IF Len(h) = 1 THEN <<>>
    ELSE siftDown(SubSeq(swap(h, 1, Len(h)), 1, Len(h) - 1), 1)

(***************************************************************************)
(* _readyPool: an LRUCache; add() puts the entry first, begin() is the      *)
(* entry added last.                                                        *)
(***************************************************************************)
lruAdd(ready, c) == <<c>> \o ready
lruBegin(ready) == ready[1]
lruErase(ready, c) == SelectSeq(ready, LAMBDA x : x # c)
lruCount(ready, c) == \E i \in 1..Len(ready) : ready[i] = c

openConnections(p) ==
    Cardinality(p.pool.checkedOutPool) + Len(p.pool.readyPool)
        + Cardinality(p.pool.processingPool)

\* a connection object is destroyed: its timer dies with it
destroy(p, c) ==
    [p EXCEPT !.conn[c] = [where |-> "destroyed", generation |-> 0,
                           status |-> "unknown", lastUsed |-> 0,
                           healthy |-> TRUE, timer |-> -1,
                           pending |-> "none"]]

\* the pool calls out (setup, refresh or a request's callback): whether the
\* calling thread holds the mutex at that moment is recorded
called(p, what) ==
    [p EXCEPT !.pool.calls = @ \cup {what},
              !.pool.lockMisuse = IF p.locked THEN @ \cup {what} ELSE @]

\* a function that works on the pool's state is entered: it is recorded if
\* the calling thread does not hold the mutex
inLock(p, what) ==
    IF p.locked THEN p ELSE [p EXCEPT !.pool.lockMisuse = @ \cup {what}]

\* a request's callback is invoked and the Request is gone
callback(p, r, result) ==
    [called(p, "callback")
        EXCEPT !.req[r].state = "done", !.req[r].result = result,
               !.req[r].calls = @ + 1, !.req[r].deadline = 0]

\* the earliest expiration among the queued requests, found by comparing
\* them all
earliestQueued(h) ==
    CHOOSE d \in {h[i].first : i \in 1..Len(h)} :
        \A i \in 1..Len(h) : d <= h[i].first

\* the ready connections that report themselves healthy, most recent first
healthyReady(p) == SelectSeq(p.pool.readyPool, LAMBDA c : p.conn[c].healthy)

\* the shutdown() handler of the idle timer calls itself again after
\* Seconds(1) while connections are still in progress
ShutdownRetry == 1

\* as updateStateInLock, but a pool that is running keeps the timer it has
updateStateInLockKeepsTimer(p) ==
    IF Len(p.pool.requests) > 0
    THEN IF p.pool.state = "kRunning"
         THEN p
         ELSE [p EXCEPT
                 !.pool.state = "kRunning",
                 !.pool.requestTimerExpiration = top(p.pool.requests).first,
                 !.pool.requestTimer =
                     [armed |-> TRUE, kind |-> "requests",
                      expiry |-> top(p.pool.requests).first]]
    ELSE IF p.pool.checkedOutPool # {}
    THEN [p EXCEPT !.pool.requestTimer.armed = FALSE,
                   !.pool.state = "kRunning",
                   !.pool.requestTimerExpiration = DateMax]
    ELSE IF p.pool.state = "kIdle"
         THEN p
         ELSE [p EXCEPT
                 !.pool.state = "kIdle",
                 !.pool.requestTimerExpiration = p.now + HostTimeout,
                 !.pool.requestTimer =
                     [armed |-> TRUE, kind |-> "shutdown",
                      expiry |-> p.now + HostTimeout]]

updateStateInLock(q) ==
    LET p == inLock(q, "updateStateInLock") IN
    IF Len(p.pool.requests) > 0
    THEN IF p.pool.state = "kRunning"
            /\ p.pool.requestTimerExpiration = top(p.pool.requests).first
         THEN p
         ELSE [p EXCEPT
                 !.pool.state = "kRunning",
                 !.pool.requestTimerExpiration = top(p.pool.requests).first,
                 !.pool.requestTimer =
                     [armed |-> TRUE, kind |-> "requests",
                      expiry |-> p.now
                                 + (top(p.pool.requests).first - p.now)]]
    ELSE IF p.pool.checkedOutPool # {}
    THEN [p EXCEPT !.pool.requestTimer.armed = FALSE,
                   !.pool.state = "kRunning",
                   !.pool.requestTimerExpiration = DateMax]
    ELSE IF p.pool.state = "kIdle"
         THEN p
         ELSE [p EXCEPT
                 !.pool.state = "kIdle",
                 !.pool.requestTimerExpiration = p.now + HostTimeout,
                 !.pool.requestTimer =
                     [armed |-> TRUE, kind |-> "shutdown",
                      expiry |-> p.now + HostTimeout]]

\* the connection ids makeConnection has not used yet
unusedConns(p) == {c \in Conns : p.conn[c].where = "none"}

spawnTargetUnclamped(p) ==
    Max(p.pool.options.minConnections,
        Len(p.pool.requests) + Cardinality(p.pool.checkedOutPool))

spawnTarget(p) ==
    Max(p.pool.options.minConnections,
        Min(Len(p.pool.requests) + Cardinality(p.pool.checkedOutPool),
            p.pool.options.maxConnections))

\* the while loop of spawnConnections; full: the model has run out of
\* connection objects
RECURSIVE spawnLoop(_)
spawnLoop(p) ==
    IF openConnections(p) < spawnTarget(p)
       /\ Cardinality(p.pool.processingPool) < p.pool.options.maxConnecting
    THEN IF unusedConns(p) = {}
         THEN [p EXCEPT !.full = TRUE]
         ELSE LET c == CHOOSE v \in unusedConns(p) :
                           \A u \in unusedConns(p) : v <= u
                  p1 == [p EXCEPT
                      !.conn[c] = [where |-> "processing",
                                   generation |-> p.pool.generation,
                                   status |-> "unknown", lastUsed |-> p.now,
                                   healthy |-> TRUE, timer |-> -1,
                                   pending |-> "setup"],
                      !.pool.processingPool = @ \cup {c},
                      !.pool.created = @ + 1]
                  \* lk.unlock(); connPtr->setup(...); lk.lock()
                  p2 == called([p1 EXCEPT !.locked = FALSE], "setup")
              IN  spawnLoop([p2 EXCEPT !.locked = TRUE])
    ELSE p

spawnConnections(q) ==
    LET p == inLock(q, "spawnConnections") IN
    IF p.pool.inSpawnConnections THEN p
    ELSE [spawnLoop([p EXCEPT !.pool.inSpawnConnections = TRUE])
             EXCEPT !.pool.inSpawnConnections = FALSE]

\* the while loop of fulfillRequests
RECURSIVE fulfillLoop(_)
fulfillLoop(p) ==
    IF Len(p.pool.requests) = 0 \/ Len(p.pool.readyPool) = 0 THEN p
    ELSE LET c == lruBegin(p.pool.readyPool)
             p1 == [p EXCEPT !.pool.readyPool = lruErase(@, c),
                             !.conn[c].timer = -1]
         IN  IF ~p.conn[c].healthy
             THEN fulfillLoop([destroy(
                      IF Len(p1.pool.readyPool) = 0
                      THEN spawnConnections(p1) ELSE p1, c)
                          EXCEPT !.pool.dropped = @ \cup {c}])
             ELSE LET r == top(p1.pool.requests)
                      p2 == updateStateInLock([p1 EXCEPT
                                !.pool.requests = pop(@),
                                !.pool.checkedOutPool = @ \cup {c},
                                !.conn[c].where = "checkedOut"])
                      p3 == [p2 EXCEPT
                                !.conn[c].status = "unknown",
                                !.pool.handouts = Append(@,
                                    [request |-> r.second,
                                     deadline |-> r.first,
                                     earliest |->
                                         earliestQueued(p.pool.requests),
                                     conn |-> c,
                                     generation |-> p.conn[c].generation,
                                     current |-> p.pool.generation,
                                     mru |-> healthyReady(p)[1]])]
                      \* lk.unlock(); cb(ConnectionHandle(...)); lk.lock()
                      p4 == callback([p3 EXCEPT !.locked = FALSE],
                                     r.second, "OK")
                  IN  fulfillLoop([p4 EXCEPT !.locked = TRUE])

\* as fulfillRequests, but one request is given the connection at the front
\* of the ready pool without isHealthy() being asked
fulfillRequestsUnchecked(p) ==
    IF p.pool.inFulfillRequests \/ Len(p.pool.requests) = 0
       \/ Len(p.pool.readyPool) = 0
    THEN p
    ELSE LET c == lruBegin(p.pool.readyPool)
             r == top(p.pool.requests)
         IN  callback(updateStateInLock([p EXCEPT
                 !.pool.readyPool = lruErase(@, c),
                 !.conn[c].timer = -1,
                 !.conn[c].where = "checkedOut",
                 !.conn[c].status = "unknown",
                 !.pool.requests = pop(@),
                 !.pool.checkedOutPool = @ \cup {c}]), r.second, "OK")

fulfillRequests(q) ==
    LET p == inLock(q, "fulfillRequests") IN
    IF p.pool.inFulfillRequests THEN p
    ELSE [fulfillLoop([p EXCEPT !.pool.inFulfillRequests = TRUE])
             EXCEPT !.pool.inFulfillRequests = FALSE]

addToReady(p, c) ==
    fulfillRequests([p EXCEPT
        !.pool.readyPool = lruAdd(@, c),
        !.conn[c].where = "ready",
        !.conn[c].timer = p.now + RefreshRequirement])

\* requestsToFail.top().second(status) for every request swapped out
RECURSIVE failRequests(_, _, _)
failRequests(p, h, status) ==
    IF Len(h) = 0 THEN p
    ELSE failRequests(callback(p, top(h).second, status), pop(h), status)

RECURSIVE destroyAll(_, _)
destroyAll(p, cs) ==
    IF cs = {} THEN p
    ELSE LET c == CHOOSE v \in cs : TRUE
         IN  destroyAll(destroy(p, c), cs \ {c})

\* as processFailure, but the mutex is held while the callbacks run
processFailureKeepsLock(p, status) ==
    LET ready == {p.pool.readyPool[i] : i \in 1..Len(p.pool.readyPool)}
        p1 == destroyAll(p, ready)
        p2 == [p1 EXCEPT
                 !.pool.generation = @ + 1,
                 !.pool.readyPool = <<>>,
                 !.pool.droppedProcessingPool = @ \cup p.pool.processingPool,
                 !.pool.processingPool = {},
                 !.pool.requests = <<>>,
                 !.conn = [c \in Conns |->
                     IF c \in p.pool.processingPool
                     THEN [p1.conn[c] EXCEPT !.where = "dropped"]
                     ELSE p1.conn[c]]]
    IN  failRequests(updateStateInLock(p2), p.pool.requests, status)

\* as processFailure, but the requests stay queued
processFailureKeepsRequests(p, status) ==
    LET ready == {p.pool.readyPool[i] : i \in 1..Len(p.pool.readyPool)}
        p1 == destroyAll(p, ready)
        p2 == [p1 EXCEPT
                 !.pool.generation = @ + 1,
                 !.pool.readyPool = <<>>,
                 !.pool.droppedProcessingPool = @ \cup p.pool.processingPool,
                 !.pool.processingPool = {},
                 !.conn = [c \in Conns |->
                     IF c \in p.pool.processingPool
                     THEN [p1.conn[c] EXCEPT !.where = "dropped"]
                     ELSE p1.conn[c]]]
    IN  updateStateInLock(p2)

processFailure(p, status) ==
    LET ready == {p.pool.readyPool[i] : i \in 1..Len(p.pool.readyPool)}
        p1 == destroyAll(p, ready)
        p2 == [p1 EXCEPT
                 !.pool.generation = @ + 1,
                 !.pool.readyPool = <<>>,
                 !.pool.droppedProcessingPool = @ \cup p.pool.processingPool,
                 !.pool.processingPool = {},
                 !.pool.requests = <<>>,
                 !.conn = [c \in Conns |->
                     IF c \in p.pool.processingPool
                     THEN [p1.conn[c] EXCEPT !.where = "dropped"]
                     ELSE p1.conn[c]]]
        \* lk.unlock()
        p3 == [updateStateInLock(p2) EXCEPT !.locked = FALSE]
    IN  failRequests(p3, p.pool.requests, status)

\* SpecificPool::SpecificPool
FreshPool(options) ==
    [exists |-> FALSE, state |-> "kRunning", generation |-> 0,
     created |-> 0, readyPool |-> <<>>, processingPool |-> {},
     droppedProcessingPool |-> {}, checkedOutPool |-> {},
     requests |-> <<>>,
     requestTimer |-> [armed |-> FALSE, kind |-> "requests", expiry |-> 0],
     requestTimerExpiration |-> 0,
     inFulfillRequests |-> FALSE, inSpawnConnections |-> FALSE,
     options |-> options, handouts |-> <<>>, dropped |-> {},
     shutdownFired |-> FALSE, calls |-> {}, lockMisuse |-> {}]

getConnection(p, r, timeout) ==
    LET t == IF timeout < 0 \/ timeout > RefreshTimeout
             THEN RefreshTimeout ELSE timeout
        expiration == p.now + t
        p1 == [p EXCEPT
                 !.pool.requests =
                     push(@, [first |-> expiration, second |-> r]),
                 !.req[r].state = "pending",
                 !.req[r].deadline = expiration]
    IN  fulfillRequests(spawnConnections(updateStateInLock(p1)))

\* as takeFromProcessingPool, but the connection stays in the pool it was
\* found in
takeFromProcessingPoolLeaves(p, c) == [p EXCEPT !.conn[c].pending = "none"]

\* takeFromProcessingPool: from _processingPool, else _droppedProcessingPool
takeFromProcessingPool(p, c) ==
    IF c \in p.pool.processingPool
    THEN [p EXCEPT !.pool.processingPool = @ \ {c},
                   !.conn[c].pending = "none"]
    ELSE [p EXCEPT !.pool.droppedProcessingPool = @ \ {c},
                   !.conn[c].pending = "none"]

isHardFailure(status) ==
    status # "OK" /\ status # "NetworkInterfaceExceededTimeLimit"

\* as returnConnection, but without the test of the generation
returnConnectionAnyGeneration(p, c) ==
    LET needsRefreshTP == p.conn[c].lastUsed + RefreshRequirement
        p1 == updateStateInLock(
                  [p EXCEPT !.pool.checkedOutPool = @ \ {c}])
    IN  IF p1.conn[c].status # "OK"
        THEN destroy(p1, c)
        ELSE IF needsRefreshTP <= p1.now
        THEN IF openConnections(p1) >= p1.pool.options.minConnections
             THEN destroy(p1, c)
             ELSE updateStateInLock([p1 EXCEPT
                      !.pool.processingPool = @ \cup {c},
                      !.conn[c].where = "processing",
                      !.conn[c].pending = "refresh"])
        ELSE updateStateInLock(addToReady(p1, c))

\* as returnConnection, but a good connection goes to the ready pool
\* whatever its age
returnConnectionNoRefresh(p, c) ==
    LET p1 == updateStateInLock(
                  [p EXCEPT !.pool.checkedOutPool = @ \ {c}])
    IN  IF p1.conn[c].generation # p1.pool.generation
        THEN destroy(p1, c)
        ELSE IF p1.conn[c].status # "OK"
        THEN destroy(p1, c)
        ELSE updateStateInLock(addToReady(p1, c))

returnConnection(p, c) ==
    LET needsRefreshTP == p.conn[c].lastUsed + RefreshRequirement
        p1 == updateStateInLock(
                  [p EXCEPT !.pool.checkedOutPool = @ \ {c}])
        \* lk.unlock(); connPtr->refresh(...); lk.lock()
        p2 == called([p1 EXCEPT
                         !.pool.processingPool = @ \cup {c},
                         !.conn[c].where = "processing",
                         !.conn[c].pending = "refresh",
                         !.locked = FALSE], "refresh")
    IN  IF p1.conn[c].generation # p1.pool.generation
        THEN destroy(p1, c)
        ELSE IF p1.conn[c].status # "OK"
        THEN destroy(p1, c)
        ELSE IF needsRefreshTP <= p1.now
        THEN IF openConnections(p1) >= p1.pool.options.minConnections
             THEN destroy(p1, c)
             ELSE updateStateInLock([p2 EXCEPT !.locked = TRUE])
        ELSE updateStateInLock(addToReady(p1, c))

\* as setupCallback, but a setup that timed out is a failure like any other
setupCallbackTimeoutFails(p, c, status) ==
    LET p1 == takeFromProcessingPool([p EXCEPT !.conn[c].lastUsed = p.now],
                                     c)
    IN  IF p1.conn[c].generation # p1.pool.generation
        THEN spawnConnections(destroy(p1, c))
        ELSE IF status = "OK"
        THEN spawnConnections(addToReady(p1, c))
        ELSE processFailure(destroy(p1, c), status)

\* the callback given to setup()
setupCallback(p, c, status) ==
    LET p1 == takeFromProcessingPool([p EXCEPT !.conn[c].lastUsed = p.now],
                                     c)
    IN  IF p1.conn[c].generation # p1.pool.generation
        THEN spawnConnections(destroy(p1, c))
        ELSE IF status = "OK"
        THEN spawnConnections(addToReady(p1, c))
        ELSE IF status = "NetworkInterfaceExceededTimeLimit"
        THEN spawnConnections(destroy(p1, c))
        ELSE processFailure(destroy(p1, c), status)

\* the callback given to refresh()
refreshCallback(p, c, status) ==
    LET p1 == takeFromProcessingPool([p EXCEPT !.conn[c].lastUsed = p.now],
                                     c)
    IN  IF p1.conn[c].generation # p1.pool.generation
        THEN spawnConnections(destroy(p1, c))
        ELSE IF p1.pool.state = "kInShutdown"
        THEN destroy(p1, c)
        ELSE IF status = "OK"
        THEN spawnConnections(addToReady(p1, c))
        ELSE IF status = "NetworkInterfaceExceededTimeLimit"
        THEN spawnConnections(destroy(p1, c))
        ELSE processFailure(destroy(p1, c), status)

\* the handler addToReady gives a ready connection's timer
connTimeoutHandler(p, c) ==
    LET p0 == [p EXCEPT !.conn[c].timer = -1]
    IN  IF ~lruCount(p0.pool.readyPool, c)
        THEN p0
        ELSE LET p1 == [p0 EXCEPT !.pool.readyPool = lruErase(@, c)]
             IN  IF p1.pool.state = "kInShutdown"
                 THEN destroy(p1, c)
                 ELSE returnConnection(
                          [p1 EXCEPT !.pool.checkedOutPool = @ \cup {c},
                                     !.conn[c].where = "checkedOut",
                                     !.conn[c].status = "OK"], c)

\* the while loop of the request timer's handler
RECURSIVE timeoutLoop(_)
timeoutLoop(p) ==
    IF Len(p.pool.requests) > 0 /\ top(p.pool.requests).first <= p.now
    THEN \* lk.unlock(); cb(Status(...)); lk.lock()
         LET p1 == callback(
                 [p EXCEPT !.pool.requests = pop(@), !.locked = FALSE],
                 top(p.pool.requests).second,
                 "NetworkInterfaceExceededTimeLimit")
         IN  timeoutLoop([p1 EXCEPT !.locked = TRUE])
    ELSE p

\* as requestTimeoutHandler, but the request whose callback is given the
\* timeout status stays in the queue
requestTimeoutHandlerLeavesQueued(p) ==
    IF Len(p.pool.requests) > 0 /\ top(p.pool.requests).first <= p.now
    THEN updateStateInLock(
             [callback([p EXCEPT !.locked = FALSE],
                       top(p.pool.requests).second,
                       "NetworkInterfaceExceededTimeLimit")
                 EXCEPT !.locked = TRUE])
    ELSE updateStateInLock(p)

requestTimeoutHandler(p) == updateStateInLock(timeoutLoop(p))

shutdown(p) ==
    IF p.pool.state = "kRunning" THEN p
    ELSE IF p.pool.processingPool # {} \/ p.pool.droppedProcessingPool # {}
    THEN [p EXCEPT !.pool.state = "kInShutdown",
                   !.pool.requestTimer =
                       [armed |-> TRUE, kind |-> "shutdown",
                        expiry |-> p.now + ShutdownRetry]]
    ELSE \* _parent->_pools.erase: the pool and its ready connections go
         LET ready == {p.pool.readyPool[i] :
                           i \in 1..Len(p.pool.readyPool)}
         IN  [destroyAll(p, ready) EXCEPT
                 !.pool = FreshPool(p.pool.options)]

\* the state a handler starts from: the pool of the host, made by get() if
\* _pools has none
CpEnter == [CpWorld EXCEPT !.pool.handouts = <<>>, !.pool.dropped = {},
                           !.pool.calls = {}, !.pool.lockMisuse = {}]

CpCommit(p) ==
    /\ ~p.full
    /\ cp' = p.pool
    /\ cpConn' = p.conn
    /\ cpReq' = p.req
    /\ cpNow' = p.now
    /\ UNCHANGED cpOthers

\* ConnectionPool::get
CpGet(r, timeout) ==
    /\ cpReq[r].state = "unused"
    /\ \A q \in Reqs : q < r => cpReq[q].state # "unused"
    /\ CpCommit(getConnection([CpEnter EXCEPT !.pool.exists = TRUE],
                              r, timeout))

\* a connection's setup() completes and calls back
CpSetupDone(c, status) ==
    /\ cpConn[c].pending = "setup"
    /\ isHardFailure(status) => cp.generation < MaxGeneration
    /\ CpCommit(setupCallback(CpEnter, c, status))

\* a connection's refresh() completes and calls back
CpRefreshDone(c, status) ==
    /\ cpConn[c].pending = "refresh"
    /\ isHardFailure(status) => cp.generation < MaxGeneration
    /\ CpCommit(refreshCallback(CpEnter, c, status))

\* the holder of a ConnectionHandle records the outcome of its use and
\* lets the handle go: ConnectionPool::returnConnection
CpReturn(c, status, used) ==
    /\ c \in cp.checkedOutPool
    /\ CpCommit(returnConnection(
           [CpEnter EXCEPT !.conn[c].status = status,
                           !.conn[c].lastUsed =
                               IF used THEN cpNow ELSE @], c))

\* the timer of a ready connection expires
CpConnTimeout(c) ==
    /\ cpConn[c].timer # -1 /\ cpNow >= cpConn[c].timer
    /\ CpCommit(connTimeoutHandler(CpEnter, c))

\* _requestTimer expires: the requests handler, or shutdown()
CpRequestTimeout ==
    /\ cp.requestTimer.armed /\ cpNow >= cp.requestTimer.expiry
    /\ LET p == [CpEnter EXCEPT !.pool.requestTimer.armed = FALSE]
       IN  CpCommit(IF cp.requestTimer.kind = "requests"
                    THEN requestTimeoutHandler(p)
                    ELSE shutdown(p))

\* the timer runs the handler that calls shutdown(): from here cancelTimeout
\* cannot take it back, and it waits for the mutex shutdown() locks first
CpShutdownFire ==
    /\ cp.requestTimer.armed /\ cp.requestTimer.kind = "shutdown"
    /\ cpNow >= cp.requestTimer.expiry
    /\ ~cp.shutdownFired
    /\ CpCommit([CpEnter EXCEPT !.pool.requestTimer.armed = FALSE,
                                !.pool.shutdownFired = TRUE])

\* the waiting handler gets the mutex and shutdown() runs
CpShutdownEnter ==
    /\ cp.shutdownFired
    /\ CpCommit(shutdown([CpEnter EXCEPT !.pool.shutdownFired = FALSE]))

\* ConnectionPool::dropConnections
CpDropConnections ==
    /\ cp.exists /\ cp.generation < MaxGeneration
    /\ CpCommit(processFailure(CpEnter, "PooledConnectionsDropped"))

\* a ready connection stops being healthy (isHealthy() will say so)
CpUnhealthy(c) ==
    /\ cpConn[c].where = "ready" /\ cpConn[c].healthy
    /\ CpCommit([CpEnter EXCEPT !.conn[c].healthy = FALSE])

CpTick ==
    /\ cpNow < MaxTime
    /\ CpCommit([CpEnter EXCEPT !.now = @ + 1])

CpInit(options) ==
    /\ cp = FreshPool(options)
    /\ cpConn = [c \in Conns |->
                    [where |-> "none", generation |-> 0,
                     status |-> "unknown", lastUsed |-> 0,
                     healthy |-> TRUE, timer |-> -1, pending |-> "none"]]
    /\ cpReq = [r \in Reqs |->
                   [state |-> "unused", deadline |-> 0, result |-> "none",
                    calls |-> 0]]
    /\ cpNow = 1

\* the timeouts get() is called with: negative, within and beyond
\* refreshTimeout
GetTimeouts == {-1, 1, RefreshTimeout + 1}

CpStatuses == {"OK", "NetworkInterfaceExceededTimeLimit", "HostUnreachable"}

CpNext ==
    \/ \E r \in Reqs, t \in GetTimeouts : CpGet(r, t)
    \/ \E c \in Conns, s \in CpStatuses : CpSetupDone(c, s)
    \/ \E c \in Conns, s \in CpStatuses : CpRefreshDone(c, s)
    \/ \E c \in Conns, s \in {"OK", "HostUnreachable"}, used \in BOOLEAN :
           CpReturn(c, s, used)
    \/ \E c \in Conns : CpConnTimeout(c)
    \/ CpRequestTimeout
    \/ CpDropConnections
    \/ \E c \in Conns : CpUnhealthy(c)
    \/ CpTick

(***************************************************************************)
(* Specifications: one per component, the others held in their initial     *)
(* state.                                                                   *)
(***************************************************************************)
CpInitDefault ==
    CpInit([minConnections |-> kDefaultMinConns, maxConnections |-> 2,
            maxConnecting |-> 2])

vars == <<ssmVars, adVars, syVars, cpVars>>

\* the state machine driven by start(), the executor and the transport only
InitSsm == (\E d \in BOOLEAN : SsmInit(d)) /\ AdInit /\ SyInit /\ CpInitDefault
NextSsm == SsmProtocol
SpecSsm == InitSsm /\ [][NextSsm]_vars

\* the same, with runNext() also called from outside at any time
NextSsmApi == SsmProtocol \/ \E t \in Threads : SsmRunNext(t)
SpecSsmApi == InitSsm /\ [][NextSsmApi]_vars

\* the adaptive executor
InitAdaptive == SsmInit(FALSE) /\ AdInit /\ SyInit /\ CpInitDefault
NextAdaptive == AdNext
SpecAdaptive == InitAdaptive /\ [][NextAdaptive]_vars

\* the adaptive executor while it runs, with tasks that schedule further
\* tasks: no shutdown, no failing thread launch
NextAdaptiveNested ==
    \/ AdStart(TRUE)
    \/ \E k \in AdTasks, f \in ScheduleFlags : AdScheduleCheck(k, f)
    \/ \E k \in AdTasks \cup AdNestedTasks : AdSchedulePost(k)
    \/ \E w \in AdWorkers, k \in AdTasks \cup AdNestedTasks,
          f \in ScheduleFlags : AdScheduleInTask(w, k, f)
    \/ \E w \in AdWorkers : AdWorkerLoopTop(w)
    \/ \E w \in AdWorkers : AdWorkerBeginTask(w)
    \/ \E w \in AdWorkers, throws \in BOOLEAN, ticks \in 0..1 :
           AdWorkerEndTask(w, throws, ticks, throws)
    \/ \E w \in AdWorkers : AdWorkerRunReturns(w)
    \/ \E w \in AdWorkers, spent \in 0..MaxTicks, pct \in {0, 100} :
           AdWorkerSliceEnd(w, spent, pct)
    \/ \E w \in AdWorkers : AdWorkerExit(w)
    \/ \E early \in BOOLEAN, u \in {0, 100} :
           AdControllerWake(early, u, ~early)
    \/ AdControllerSleepDone(TRUE)
SpecAdaptiveNested == InitAdaptive /\ [][NextAdaptiveNested]_vars

\* the adaptive executor while it runs, with the running timers of its
\* threads followed and the exit guard and _getThreadTimerTotal taken in the
\* steps their mutex divides them into
NextAdaptiveTimers ==
    \/ AdStart(TRUE)
    \/ \E k \in AdTasks : AdScheduleCheck(k, {})
    \/ \E k \in AdTasks : AdSchedulePost(k)
    \/ \E w \in AdWorkers : AdWorkerLoopTop(w)
    \/ \E w \in AdWorkers : AdWorkerBeginTask(w)
    \/ \E w \in AdWorkers, ticks \in 0..1 :
           AdWorkerEndTask(w, FALSE, ticks, FALSE)
    \/ \E w \in AdWorkers : AdWorkerRunReturns(w)
    \/ \E w \in AdWorkers, spent \in 0..MaxTicks, pct \in {0, 100} :
           AdWorkerSliceEndTimed(w, spent, pct)
    \/ \E w \in AdWorkers : AdWorkerExitFold(w)
    \/ \E w \in AdWorkers : AdWorkerExitErase(w)
    \/ \E early \in BOOLEAN, u \in {0, 100} :
           AdControllerWake(early, u, ~early)
    \/ AdControllerSleepDone(TRUE)
    \/ AdGetThreadTimerTotalLoad
    \/ AdGetThreadTimerTotalSum
SpecAdaptiveTimers == InitAdaptive /\ [][NextAdaptiveTimers]_vars

\* the synchronous executor
InitSynchronous == SsmInit(FALSE) /\ AdInit /\ SyInit /\ CpInitDefault
NextSynchronous == SyNext
SpecSynchronous == InitSynchronous /\ [][NextSynchronous]_vars

\* the connection pool of one host
InitPool ==
    SsmInit(FALSE) /\ AdInit /\ SyInit /\ \E o \in PoolOptions : CpInit(o)
NextPool == CpNext
SpecPool == InitPool /\ [][NextPool]_vars

\* the pool with the handler of the shutdown timer able to wait for the
\* mutex while other handlers run
NextPoolReap == CpNext \/ CpShutdownFire \/ CpShutdownEnter
SpecPoolReap == InitPool /\ [][NextPoolReap]_vars

\* the pool with the default sizes; the executor that runs the pool's timers
\* runs the handler of a request timer that has expired
InitPoolFair == SsmInit(FALSE) /\ AdInit /\ SyInit /\ CpInitDefault
SpecPoolFair ==
    InitPoolFair /\ [][NextPool]_vars /\ WF_vars(CpRequestTimeout)

\* a server runs one of the two executors: the steps of one are taken while
\* the other is as constructed
InitExecutors == SsmInit(FALSE) /\ AdInit /\ SyInit /\ CpInitDefault
NextExecutors == (SyInit /\ AdNext) \/ (AdInit /\ SyNext)
SpecExecutors == InitExecutors /\ [][NextExecutors]_vars

\* the state machine with a caller that releases a guard twice
NextSsmGuard == NextSsmApi \/ \E t \in Threads : SsmReleaseTwice(t)
SpecSsmGuard == InitSsm /\ [][NextSsmGuard]_vars

\* one connection and the executor that runs its tasks: the steps of the
\* state machine with the executor as constructed, or those of an executor
\* with the state machine as constructed
NextServer ==
    \/ AdInit /\ SyInit /\ NextSsm
    \/ SsmInit(FALSE) /\ NextExecutors
SpecServer == InitSsm /\ [][NextServer]_vars

(***************************************************************************)
(* C1: at most one thread at a time holds a ThreadGuard that has taken      *)
(* ownership of the state machine.                                          *)
(***************************************************************************)
C1_OwnershipExclusive ==
    Cardinality({t \in Threads : thread[t].haveTakenOwnership}) <= 1

(***************************************************************************)
(* C2: adaptive executor: a task whose schedule() returned OK is executed   *)
(* exactly once and a task whose schedule() returned ShutdownInProgress     *)
(* never runs.  Stated at the point where nothing can run a task any more:  *)
(* shutdown() has returned OK and every worker thread has exited, in a run  *)
(* where no thread launch has failed.                                       *)
(***************************************************************************)
C2_AcceptedTasksRunOnce ==
    /\ \A k \in AdTasks :
           /\ adTask[k].runs <= 1
           /\ adTask[k].returned = "ShutdownInProgress" => adTask[k].runs = 0
    /\ (adShut.pc = "done" /\ adShut.result = "OK" /\ ~ad.launchFailed)
           => \A k \in AdTasks :
                  adTask[k].returned = "OK" => adTask[k].runs = 1

(***************************************************************************)
(* C6: adaptive executor: once the controller has completed an iteration    *)
(* of its loop, and while the executor is running, at least reservedThreads *)
(* worker threads are alive.  Stated for the runs in which no thread launch *)
(* has failed.                                                              *)
(***************************************************************************)
C6_ReservedThreadsFloor ==
    (ad.isRunning /\ adCtl.completedRound /\ ~ad.launchFailed)
        => ad.threadsRunning >= ReservedThreads

(***************************************************************************)
(* C3: synchronous executor: a worker's drain loop is left, and its thread  *)
(* ends, only with an empty private queue, so no task whose schedule()      *)
(* returned OK is destroyed unexecuted with the queue of its thread, and no *)
(* task runs twice.                                                         *)
(***************************************************************************)
C3_DrainLoopExitsEmpty ==
    /\ \A t \in SyThreads :
           syThread[t].pc = "exit" => syThread[t].localWorkQueue = <<>>
    /\ \A k \in SyTasks :
           /\ syTask[k].runs <= 1
           /\ ~(syTask[k].returned = "OK" /\ syTask[k].status = "dropped")

\* C4: a connection whose generation differs from its pool's generation is
\* never in the ready pool and is never the connection a request's callback
\* is given: every ready connection, and every connection fulfillRequests
\* hands out, has the generation the pool has at that moment.
C4_NoStaleConnectionServed ==
    /\ \A i \in 1..Len(cp.readyPool) :
           cpConn[cp.readyPool[i]].generation = cp.generation
    /\ \A i \in 1..Len(cp.handouts) :
           cp.handouts[i].generation = cp.handouts[i].current

\* a request has just been given a connection of the current generation
\* while a connection of an older generation is still out or in progress
C4_Witness ==
    /\ cp.generation > 0
    /\ Len(cp.handouts) > 0
    /\ \E c \in Conns : /\ cpConn[c].where \in {"checkedOut", "dropped"}
                        /\ cpConn[c].generation # cp.generation

\* C5: the request fulfillRequests serves is the queued request with the
\* earliest expiration, whatever the order of the get() calls, and the
\* connection it hands out is the healthy ready connection added last.
C5_EarliestDeadlineMostRecentConnection ==
    \A i \in 1..Len(cp.handouts) :
        /\ cp.handouts[i].deadline = cp.handouts[i].earliest
        /\ cp.handouts[i].conn = cp.handouts[i].mru

\* a request was served ahead of a request that was queued before it and
\* expires later
C5_Witness ==
    \E i \in 1..Len(cp.handouts) : \E q \in Reqs :
        /\ q < cp.handouts[i].request
        /\ cpReq[q].state = "pending"
        /\ cpReq[q].deadline > cp.handouts[i].deadline

\* C10: ready + processing + checked-out is at most
\* max(minConnections, maxConnections); so while no connection has been
\* discarded no more than that many have been created, and no more than that
\* many requests hold a connection, the others waiting for a return.
C10_OpenConnectionsBounded ==
    LET limit == Max(cp.options.minConnections, cp.options.maxConnections)
    IN  /\ openConnections(CpWorld) <= limit
        /\ Cardinality(cp.checkedOutPool) <= limit
        /\ (\A c \in Conns : cpConn[c].where \notin {"destroyed", "dropped"})
               => /\ cp.created <= limit
                  /\ cp.created
                         = Cardinality({c \in Conns : cpConn[c].where # "none"})

\* minConnections 1, maxConnections 2, three get() calls: two connections
\* were created and are checked out, and the third request is pending
C10_Witness ==
    /\ cp.options.minConnections = 1 /\ cp.options.maxConnections = 2
    /\ cp.created = 2
    /\ Cardinality(cp.checkedOutPool) = 2
    /\ \A c \in Conns : cpConn[c].where \in {"checkedOut", "none"}
    /\ Cardinality({r \in Reqs : cpReq[r].result = "OK"}) = 2
    /\ Cardinality({r \in Reqs : cpReq[r].state = "pending"}) = 1

C8_ProcessFailureCascade ==
    [][\A s \in CpStatuses \cup {"PooledConnectionsDropped"} :
       \A c \in Conns \cup {0} :
           LET triggered ==
                   IF c = 0
                   THEN s = "PooledConnectionsDropped" /\ CpDropConnections
                   ELSE /\ s \in CpStatuses /\ isHardFailure(s)
                        /\ cpConn[c].generation = cp.generation
                        /\ \/ CpSetupDone(c, s)
                           \/ cp.state # "kInShutdown" /\ CpRefreshDone(c, s)
           IN  triggered =>
                   /\ cp'.generation = cp.generation + 1
                   /\ cp'.readyPool = <<>>
                   /\ cp'.processingPool = {}
                   /\ cp'.droppedProcessingPool =
                          (cp.droppedProcessingPool \cup cp.processingPool)
                              \ {c}
                   /\ cp'.requests = <<>>
                   /\ \A r \in Reqs :
                          IF cpReq[r].state = "pending"
                          THEN /\ cpReq'[r].state = "done"
                               /\ cpReq'[r].result = s
                               /\ cpReq'[r].calls = cpReq[r].calls + 1
                          ELSE cpReq'[r] = cpReq[r]]_vars

\* two pending requests were failed with the status of a failed setup, whose
\* processing connections are now in the dropped pool
C8_Witness ==
    /\ cp.generation = 1
    /\ cp.droppedProcessingPool # {}
    /\ cp.requests = <<>>
    /\ Cardinality({r \in Reqs : /\ cpReq[r].result = "HostUnreachable"
                                 /\ cpReq[r].calls = 1}) >= 2

\* C9: returning a checked-out connection of the current generation with a
\* status that is not OK, while requests are pending, invokes the callback of
\* every pending request with that status and adds one to _generation.
C9_FailedReturnCascades ==
    [][\A c \in Conns, used \in BOOLEAN :
           (/\ cpConn[c].generation = cp.generation
            /\ Len(cp.requests) > 0
            /\ CpReturn(c, "HostUnreachable", used))
               => /\ cp'.generation = cp.generation + 1
                  /\ \A r \in Reqs :
                         cpReq[r].state = "pending"
                             => /\ cpReq'[r].result = "HostUnreachable"
                                /\ cpReq'[r].calls = cpReq[r].calls + 1]_vars

\* C11: the cleanup hook is invoked at most once, only by a release that
\* finds the state Ended, and it has been invoked once whenever the state is
\* Ended and no thread is inside the state machine; a later release or
\* destruction of a guard does not invoke it again.
C11_CleanupHookOnce ==
    /\ [](ssmEnv.hookCalls <= 1)
    /\ []((ssm.state = "Ended" /\ ~ssmEnv.crashed
              /\ \A t \in Threads : thread[t].pc = "idle")
             => ssmEnv.hookCalls = 1)
    /\ [][ssmEnv'.hookCalls # ssmEnv.hookCalls
              => /\ ssm'.state = "Ended"
                 /\ ssmEnv'.hookCalls = ssmEnv.hookCalls + 1]_vars

\* the session has ended after a message was handled and the hook has run
C11_Witness ==
    /\ ssm.state = "Ended"
    /\ ssmEnv.hookCalls = 1
    /\ ssmEnv.handled >= 1
    /\ ~ssmEnv.crashed

\* C12: every change of _state is Created->Source, Source->SourceWait,
\* SourceWait->Process, Process->SinkWait, Process->Source,
\* SinkWait->Source, SinkWait->Process, X->EndSession or EndSession->Ended;
\* so Ended is stored only over EndSession and is never stored over.
C12_StateTransitions ==
    \A i \in 1..Len(ssmEnv.stores) :
        LET from == ssmEnv.stores[i][1]
            to == ssmEnv.stores[i][2]
        IN  from # to =>
                \/ <<from, to>> \in
                       {<<"Created", "Source">>, <<"Source", "SourceWait">>,
                        <<"SourceWait", "Process">>,
                        <<"Process", "SinkWait">>, <<"Process", "Source">>,
                        <<"SinkWait", "Source">>, <<"SinkWait", "Process">>,
                        <<"EndSession", "Ended">>}
                \/ to = "EndSession" /\ from # "Ended"

C14_ScheduleFailureEndsSession ==
    /\ [][\A t \in Threads :
              /\ SsmScheduleNextWithGuard(t, FALSE)
                     => /\ ~ssmEnv'.crashed
                        /\ thread'[t].pc = "terminate"
                        /\ thread'[t].haveTakenOwnership
                        /\ ssm'.owned # "kUnowned"
                        /\ ssmTasks' = ssmTasks
              /\ SsmTerminate(t)
                     => /\ ssm'.state = "Ended"
                        /\ ssmEnv'.hookCalls = ssmEnv.hookCalls + 1
                        /\ thread'[t].pc = "idle"]_vars
    /\ []((ssmEnv.started /\ ~ssmEnv.crashed
              /\ \A t \in Threads : thread[t].pc = "idle")
             => \/ ssm.state = "Ended"
                \/ ssmTasks # << >>
                \/ ticket # "none")

\* schedule() failed for the task that was to process a message: the state
\* went from Process to Ended and the hook has run
C14_Witness ==
    /\ ssm.state = "Ended"
    /\ ssmEnv.stores = <<<<"Process", "Ended">>>>
    /\ ssmEnv.hookCalls = 1
    /\ \A t \in Threads : thread[t].pc = "idle"

\* C15: a schedule() call made while the executor is not running (before
\* start() or after shutdown() stored false) returns ShutdownInProgress and
\* its task is not run inline and not queued, for both executors; a task so
\* rejected never runs.
C15_NotRunningRejects ==
    /\ [][/\ \A k \in AdTasks :
                 (adTask[k].status = "new" /\ adTask'[k].status # "new"
                      /\ ~ad.isRunning)
                     => /\ adTask'[k].returned = "ShutdownInProgress"
                        /\ adTask'[k].runs = 0
                        /\ ad'.ioQueue = ad.ioQueue
                        /\ adWorker' = adWorker
          /\ \A k \in SyTasks :
                 (syTask[k].status = "new" /\ syTask'[k].status # "new"
                      /\ ~sy.stillRunning)
                     => /\ syTask'[k].returned = "ShutdownInProgress"
                        /\ syTask'[k].runs = 0
                        /\ syThread' = syThread]_vars
    /\ [](\A k \in AdTasks :
              adTask[k].returned = "ShutdownInProgress"
                  => /\ adTask[k].runs = 0
                     /\ \A i \in 1..Len(ad.ioQueue) : ad.ioQueue[i] # k
                     /\ \A w \in AdWorkers :
                            \A i \in 1..Len(adWorker[w].stack) :
                                adWorker[w].stack[i] # k)
    /\ [](\A k \in SyTasks :
              syTask[k].returned = "ShutdownInProgress"
                  => /\ syTask[k].runs = 0
                     /\ \A t \in SyThreads :
                            /\ \A i \in 1..Len(syThread[t].localWorkQueue) :
                                   syThread[t].localWorkQueue[i] # k
                            /\ \A i \in 1..Len(syThread[t].stack) :
                                   syThread[t].stack[i] # k)

\* the adaptive executor ran a task, shutdown() began, and a schedule() call
\* made after that was rejected
C15_Witness ==
    /\ adShut.pc # "idle"
    /\ \E k \in AdTasks : adTask[k].runs = 1
    /\ \E k \in AdTasks : adTask[k].returned = "ShutdownInProgress"

\* C16: a second ThreadGuard::release right after a first one, with no guard
\* taken in between, is caught by an assertion or changes nothing: the Client
\* stays where the first call left it, and so do the ownership flag, the
\* thread name and the number of cleanup hook calls.
C16_SecondReleaseNoOp ==
    [][\A t \in Threads :
           SsmReleaseTwice(t) =>
               LET w1 == release(SsmWorld, t)
               IN  \/ ssmEnv'.crashed
                   \/ /\ ssm'.dbClient = w1.ssm.dbClient
                      /\ ssm'.owned = w1.ssm.owned
                      /\ thread'[t].name = w1.thread[t].name
                      /\ thread'[t].haveTakenOwnership
                             = w1.thread[t].haveTakenOwnership
                      /\ ssmEnv'.hookCalls = w1.env.hookCalls]_vars

\* a release build in which a guard was released twice: once with the
\* session under way, once more after it ended
C16_Witness ==
    /\ ~ssmEnv.crashed
    /\ ~ssmEnv.debugBuild
    /\ \E t \in Threads : thread[t].pc = "releasedTwice"
    /\ ssm.owned = "kUnowned"
    /\ ssm.dbClient = 0

C19_ShutdownResultIffThreadsGone ==
    /\ [][(adShut' # adShut /\ adShut'.pc = "done") =>
              /\ adShut'.result \in {"OK", "ExceededTimeLimit"}
              /\ adShut'.result = "OK" <=> FreeSlots(AdWorld) = AdWorkers]_vars
    /\ [][(syShut' # syShut /\ syShut'.pc = "done") =>
              /\ syShut'.result \in {"OK", "ExceededTimeLimit"}
              /\ syShut'.result = "OK" <=> sy.numRunningWorkerThreads = 0]_vars
    /\ [][(sy.numRunningWorkerThreads # 0 /\ sy'.numRunningWorkerThreads = 0)
              => sy'.shutdownNotified]_vars
    /\ [][(adShut.pc = "wait" /\ FreeSlots(AdWorld) = AdWorkers)
              => adWorker' = adWorker]_vars

\* C19, amended: the same for a shutdown() call that waits; an adaptive
\* shutdown() call that finds the executor not running returns OK at once,
\* whatever threads there are.
C19_WaitingShutdownResultIffThreadsGone ==
    /\ [][(adShut.pc = "wait" /\ adShut'.pc = "done") =>
              /\ adShut'.result \in {"OK", "ExceededTimeLimit"}
              /\ adShut'.result = "OK" <=> FreeSlots(AdWorld) = AdWorkers]_vars
    /\ [][(adShut.pc # "wait" /\ adShut' # adShut /\ adShut'.pc = "done") =>
              ~ad.isRunning /\ adShut'.result = "OK"]_vars
    /\ [][(syShut' # syShut /\ syShut'.pc = "done") =>
              /\ syShut.pc = "wait"
              /\ syShut'.result \in {"OK", "ExceededTimeLimit"}
              /\ syShut'.result = "OK" <=> sy.numRunningWorkerThreads = 0]_vars
    /\ [][(sy.numRunningWorkerThreads # 0 /\ sy'.numRunningWorkerThreads = 0)
              => sy'.shutdownNotified]_vars
    /\ [][(adShut.pc = "wait" /\ FreeSlots(AdWorld) = AdWorkers)
              => adWorker' = adWorker]_vars

\* an adaptive shutdown() ran out of time with a worker still there
C19_Witness ==
    /\ adShut.pc = "done"
    /\ adShut.result = "ExceededTimeLimit"
    /\ FreeSlots(AdWorld) # AdWorkers

\* C20: every step that brings the state to SourceWait or SinkWait leaves
\* the state machine released, with _owned back to kUnowned and the Client
\* back in the state machine, in either ownership mode; every
\* _sourceCallback and _sinkCallback holds a guard when it stores the state.
C20_WaitsReleaseOwnership ==
    /\ [][(ssm'.state \in {"SourceWait", "SinkWait"}
               /\ ssm'.state # ssm.state) =>
              /\ \A t \in Threads : ~thread'[t].haveTakenOwnership
              /\ ssm'.owned = "kUnowned"
              /\ ssm'.dbClient = 0]_vars
    /\ [][\A t \in Threads, ok \in BOOLEAN :
              (SsmSourceCallback(t, ok) \/ SsmSinkCallback(t, ok)) =>
                  \/ ssmEnv'.crashed /\ ssm'.state = ssm.state
                  \/ /\ thread'[t].haveTakenOwnership
                     /\ ssm'.owned # "kUnowned"
                     /\ ssm'.dbClient = t]_vars

\* C20, amended: such a step leaves no guard holding the state machine; with
\* _owned kOwned the flag is back to kUnowned and the Client back in the
\* state machine, with _owned kStatic the flag stays kStatic and the Client
\* stays with the thread; the callbacks are as above.
C20_WaitsReleaseGuard ==
    /\ [][(ssm'.state \in {"SourceWait", "SinkWait"}
               /\ ssm'.state # ssm.state) =>
              /\ \A t \in Threads : ~thread'[t].haveTakenOwnership
              /\ ticket' # "none"
              /\ IF ssm.owned = "kStatic"
                 THEN ssm'.owned = "kStatic" /\ ssm'.dbClient = ssm.dbClient
                      /\ ssm.dbClient \in Threads
                 ELSE ssm'.owned = "kUnowned" /\ ssm'.dbClient = 0]_vars
    /\ [][\A t \in Threads, ok \in BOOLEAN :
              (SsmSourceCallback(t, ok) \/ SsmSinkCallback(t, ok)) =>
                  \/ ssmEnv'.crashed /\ ssm'.state = ssm.state
                  \/ /\ thread'[t].haveTakenOwnership
                     /\ ssm'.owned # "kUnowned"
                     /\ ssm'.dbClient = t]_vars

\* a statically owned connection waits for its response to be sent, and the
\* Client is still with its thread
C20_Witness ==
    /\ ssm.state = "SinkWait"
    /\ ssm.owned = "kStatic"
    /\ ssm.dbClient \in Threads
    /\ ticket = "sink"
    /\ \A t \in Threads : ~thread[t].haveTakenOwnership

\* C21: _sinkCallback after a successful send stores Process if _inExhaust
\* is set and Source if not, and goes on to schedule the next step as a
\* deferred task; after a failed send it stores EndSession, and the step
\* that follows cleans the session up and schedules nothing.
C21_SinkCallbackNextState ==
    [][\A t \in Threads :
           /\ (SsmSinkCallback(t, TRUE) /\ ~ssmEnv'.crashed) =>
                  /\ ssm'.state = (IF ssm.inExhaust THEN "Process"
                                   ELSE "Source")
                  /\ ssmEnv'.stores = <<<<"SinkWait", ssm'.state>>>>
                  /\ thread'[t].pc = "schedule"
                  /\ thread'[t].flags = "kDeferredTask|kMayYield"
                  /\ thread'[t].haveTakenOwnership
           /\ (thread[t].pc = "schedule"
                   /\ thread[t].flags = "kDeferredTask|kMayYield"
                   /\ SsmScheduleNextWithGuard(t, TRUE)) =>
                  ssmEnv'.crashed
                      \/ ssmTasks' = Append(ssmTasks, "kDeferredTask|kMayYield")
           /\ (SsmSinkCallback(t, FALSE) /\ ~ssmEnv'.crashed) =>
                  /\ ssm'.state = "EndSession"
                  /\ thread'[t].pc = "runNext"
                  /\ ssmTasks' = ssmTasks
           /\ (ssm.state = "EndSession"
                   /\ SsmRunNextInGuard(t, "response")) =>
                  /\ ssm'.state = "Ended"
                  /\ ssmTasks' = ssmTasks
                  /\ ticket' = "none"
                  /\ thread'[t].pc = "idle"
                  /\ ssmEnv'.hookCalls = ssmEnv.hookCalls + 1]_vars

\* an exhaust response was sent and _sinkCallback has stored Process
C21_Witness ==
    /\ ssm.state = "Process"
    /\ ssm.inExhaust
    /\ ssmEnv.stores = <<<<"SinkWait", "Process">>>>
    /\ \E t \in Threads : /\ thread[t].pc = "schedule"
                          /\ thread[t].flags = "kDeferredTask|kMayYield"

\* C22: on a wake with the executor running the controller starts a batch
\* of reserve threads exactly when nothing was scheduled for
\* stuckThreadTimeout and the threads in use are all the threads running.
\* Nothing is known to have been scheduled for that long at a timed-out
\* wake with no schedule() since the last round, and at any wake for which
\* adCtl.batches >= 1 (no schedule() since an earlier timed-out round).
\* Stated for the runs in which no thread launch has failed.
C22_BatchIffStuck ==
    [][\A early \in BOOLEAN, u \in {0, 100}, ok \in BOOLEAN :
           (AdControllerWake(early, u, ok) /\ ad.isRunning
                /\ ~ad'.launchFailed) =>
               LET quiet == ~ad.scheduledThisWait
                                /\ (~early \/ adCtl.batches >= 1)
                   allInUse == ad.threadsInUse = ad.threadsRunning
               IN  /\ adCtl'.batches > adCtl.batches
                          => ~ad.scheduledThisWait /\ allInUse
                   /\ (quiet /\ allInUse)
                          => adCtl'.batches > adCtl.batches]_vars

\* C22, amended: the batch is started exactly at a wake that comes
\* stuckThreadTimeout or more after the controller's last round and finds
\* nothing scheduled meanwhile and every running thread in use; it is
\* ReservedThreads new workers.
C22_BatchIffStuckAtTimedOutWake ==
    [][\A early \in BOOLEAN, u \in {0, 100}, ok \in BOOLEAN :
           (AdControllerWake(early, u, ok) /\ ad.isRunning
                /\ ~ad'.launchFailed) =>
               /\ adCtl'.batches > adCtl.batches
                      <=> /\ ~early
                          /\ ~ad.scheduledThisWait
                          /\ ad.threadsInUse = ad.threadsRunning
               /\ adCtl'.batches > adCtl.batches
                      => /\ adCtl'.batches = adCtl.batches + 1
                         /\ ad'.threadsRunning
                                = ad.threadsRunning + ReservedThreads
                         /\ ad'.threadsPending
                                = ad.threadsPending + ReservedThreads]_vars

\* the first batch of a blockage has just been started
C22_Witness ==
    /\ adCtl.batches = 1
    /\ ad.threadsRunning = ad.threadsInUse + ReservedThreads
    /\ ad.threadsInUse >= 1
    /\ \E w \in AdWorkers : adWorker[w] = NewWorker

\* C23: every wake of the controller that finds the executor running and
\* the stuck-thread condition false, timed out or not, ends with at least
\* ReservedThreads threads running.
C23_EveryWakeReplenishes ==
    [][\A early \in BOOLEAN, u \in {0, 100}, ok \in BOOLEAN :
           (AdControllerWake(early, u, ok) /\ ad.isRunning
                /\ ~(ad.threadsInUse = ad.threadsRunning
                         /\ ~ad.scheduledThisWait)) =>
               ad'.threadsRunning >= ReservedThreads]_vars

\* C24: a wake of the controller before stuckThreadTimeout has passed
\* brings the running threads up to ReservedThreads and no further; it goes
\* on to its sleep only with a utilization of IdlePctThreshold or more, and
\* after the sleep it starts one worker if no thread is pending, a
\* non-deferred task is queued and more are queued than threads are idle,
\* and none otherwise.
C24_AtMostOneExtraWorker ==
    /\ [][\A u \in {0, 100}, ok \in BOOLEAN :
              (AdControllerWake(TRUE, u, ok) /\ ad.isRunning) =>
                  /\ ad'.threadsRunning =
                         (IF ad.threadsRunning < ReservedThreads
                          THEN ReservedThreads ELSE ad.threadsRunning)
                  /\ adCtl'.pc = (IF u < IdlePctThreshold THEN "wait"
                                  ELSE "sleep")]_vars
    /\ [][(adCtl'.pc = "sleep" /\ adCtl.pc # "sleep") =>
              \E u \in {0, 100} :
                  u >= IdlePctThreshold /\ AdControllerWake(TRUE, u, FALSE)]_vars
    /\ [][\A ok \in BOOLEAN :
              (AdControllerSleepDone(ok) /\ ~ad'.launchFailed) =>
                  LET starved == /\ ad.threadsPending = 0
                                 /\ ad.tasksQueued > 0
                                 /\ ad.tasksQueued >
                                        ad.threadsRunning - ad.threadsInUse
                  IN  ad'.threadsRunning =
                          ad.threadsRunning + (IF starved THEN 1 ELSE 0)]_vars

\* the controller has started one worker beyond the reserved ones for two
\* queued tasks that no worker has begun
C24_Witness ==
    /\ adCtl.pc = "wait"
    /\ ~ad.launchFailed
    /\ ad.threadsRunning = ReservedThreads + 1
    /\ ad.threadsInUse = 0
    /\ ad.totalExecuted = 0
    /\ ad.tasksQueued = 2
    /\ \E w \in AdWorkers : adWorker[w] = NewWorker

\* C25: with the executor running, a worker leaves its loop either through
\* the catch block of a task that threw or at the end of a slice; at the end
\* of a slice it leaves only if it was no longer pending, more than
\* ReservedThreads threads were running and it spent less than
\* IdlePctThreshold percent of the slice executing tasks (a slice measured
\* as zero ticks long has no percentage); a pending worker goes back to the
\* top of its loop.
C25_VoluntaryExitOnlyWhenIdle ==
    /\ [][\A w \in AdWorkers :
              (adWorker[w].pc # "exiting" /\ adWorker'[w].pc = "exiting"
                   /\ ad.isRunning) =>
                  adWorker[w].pc \in {"inTask", "sliceEnd"}]_vars
    /\ [][\A w \in AdWorkers, spent \in 0..MaxTicks, pct \in {0, 100} :
              AdWorkerSliceEnd(w, spent, pct) =>
                  /\ adWorker[w].stillPending => adWorker'[w].pc = "top"
                  /\ adWorker'[w].pc = "exiting" =>
                         /\ ~adWorker[w].stillPending
                         /\ ad.threadsRunning > ReservedThreads
                         /\ \/ spent = 0
                            \/ adWorker[w].executingCurRun * 100
                                   < IdlePctThreshold * spent]_vars

\* a worker beyond the reserved ones leaves after an idle slice
C25_Witness ==
    /\ ad.isRunning
    /\ ad.totalExecuted = 0
    /\ ad.threadsRunning > ReservedThreads
    /\ \E w \in AdWorkers : /\ adWorker[w].pc = "exiting"
                            /\ ~adWorker[w].stillPending
                            /\ adWorker[w].executingCurRun = 0

\* C26: a schedule() call that finds the controller not yet notified
\* notifies it exactly when the call is accepted, its task is not deferred
\* and, once the task is posted or dispatched, threadsPending is 0,
\* tasksQueued is above 0 and above threadsRunning - threadsInUse; a
\* rejected call notifies nobody, and a deferred task never changes
\* tasksQueued.
C26_NotifyIffStarvedAndNotDeferred ==
    [][LET starvedAfter == /\ ad'.threadsPending = 0
                           /\ ad'.tasksQueued > 0
                           /\ ad'.tasksQueued
                                  > ad'.threadsRunning - ad'.threadsInUse
           signals(flags) == "kDeferredTask" \notin flags /\ starvedAfter
       IN  /\ \A k \in AdTasks, flags \in ScheduleFlags :
                  AdScheduleCheck(k, flags) =>
                      /\ ad'.notified = ad.notified
                      /\ "kDeferredTask" \in flags =>
                             ad'.tasksQueued = ad.tasksQueued
           /\ \A k \in AdTasks :
                  (AdSchedulePost(k) /\ ~ad.notified) =>
                      (ad'.notified <=> signals(adTask[k].flags))
           /\ \A w \in AdWorkers, k \in AdTasks, flags \in ScheduleFlags :
                  AdScheduleInTask(w, k, flags) =>
                      /\ "kDeferredTask" \in flags =>
                             ad'.tasksQueued = ad.tasksQueued
                      /\ ~ad.notified =>
                             (ad'.notified <=> /\ adTask'[k].status = "queued"
                                               /\ signals(flags))
           /\ \A w \in AdWorkers :
                  (/\ AdWorkerEndTask(w, FALSE, 0, FALSE)
                   /\ Len(adWorker[w].stack) > 1
                   /\ ~ad.notified) =>
                      (ad'.notified <=>
                           signals(adTask[adWorker[w].stack[
                                       Len(adWorker[w].stack)]].flags))]_vars

\* a schedule() call has notified the controller of a starved pool while a
\* deferred task is counted as queued
C26_Witness ==
    /\ ad.isRunning /\ ad.notified
    /\ ad.threadsPending = 0
    /\ ad.tasksQueued > ad.threadsRunning - ad.threadsInUse
    /\ ad.deferredTasksQueued > 0

\* C27: a schedule() call made by a running task and accepted starts the
\* new task on the calling worker's stack only if the task may recurse and
\* the worker's recursion depth is below the limit (the code asks for
\* depth + 1 below the limit), and otherwise appends it to the shared
\* queue; no worker's stack of wrapped tasks is ever deeper than the limit;
\* threadsInUse counts the workers with a task on their stack, so nested
\* tasks leave it alone.
C27_NestingBounded ==
    /\ [](/\ \A w \in AdWorkers : Len(adWorker[w].stack) <= AdRecursionLimit
          /\ ad.threadsInUse
                 = Cardinality({w \in AdWorkers : adWorker[w].stack # <<>>}))
    /\ [][\A w \in AdWorkers, k \in AdTasks \cup AdNestedTasks,
             flags \in ScheduleFlags :
              (AdScheduleInTask(w, k, flags) /\ ad.isRunning) =>
                  LET depth == Len(adWorker[w].stack)
                      inline == adWorker'[w].stack
                                    = Append(adWorker[w].stack, k)
                  IN  /\ inline => /\ "kMayRecurse" \in flags
                                   /\ depth < AdRecursionLimit
                      /\ inline <=> /\ "kMayRecurse" \in flags
                                    /\ depth + 1 < AdRecursionLimit
                      /\ ~inline => /\ ad'.ioQueue = Append(ad.ioQueue, k)
                                    /\ UNCHANGED adWorker
                      /\ ad'.threadsInUse = ad.threadsInUse]_vars

\* a worker as deep as the code lets it go, and a task that may recurse
\* waiting in the shared queue
C27_Witness ==
    /\ \E w \in AdWorkers : Len(adWorker[w].stack) = AdRecursionLimit - 1
    /\ \E k \in AdTasks \cup AdNestedTasks :
           /\ adTask[k].status = "queued"
           /\ "kMayRecurse" \in adTask[k].flags

\* C28: a schedule() call made by a task on a worker thread of the running
\* synchronous executor runs the new task on the calling stack if and only
\* if it may recurse and _localRecursionDepth is below the limit, and
\* otherwise appends it to the thread's queue; the loop sets the depth to 1
\* before each task it takes from the queue; the stack of tasks on a thread
\* is never deeper than the limit.
C28_InlineIffBelowLimit ==
    /\ [](\A t \in SyThreads :
              /\ Len(syThread[t].stack) <= SyRecursionLimit
              /\ syThread[t].pc = "inTask" =>
                     Len(syThread[t].stack)
                         <= syThread[t].localRecursionDepth)
    /\ [][\A t \in SyThreads, k \in SyTasks, flags \in SyFlags :
              (SyScheduleInTask(t, k, flags) /\ sy.stillRunning) =>
                  LET inline == syThread'[t].stack
                                    = Append(syThread[t].stack, k)
                  IN  /\ inline <=>
                             /\ "kMayRecurse" \in flags
                             /\ syThread[t].localRecursionDepth
                                    < SyRecursionLimit
                      /\ ~inline =>
                             /\ syThread'[t].localWorkQueue
                                    = Append(syThread[t].localWorkQueue, k)
                             /\ syThread'[t].stack = syThread[t].stack]_vars
    /\ [][\A t \in SyThreads :
              (SyLoop(t) /\ syThread'[t].pc = "inTask") =>
                  syThread'[t].localRecursionDepth = 1]_vars

\* a thread as deep as the limit allows, with a task put in its queue by
\* the tasks it is running
C28_Witness ==
    \E t \in SyThreads :
        /\ Len(syThread[t].stack) = SyRecursionLimit
        /\ syThread[t].localRecursionDepth = SyRecursionLimit
        /\ Len(syThread[t].localWorkQueue) = 2

\* C29: synchronous executor, a connection being the thread launched by
\* its first schedule() call: that call launches exactly one thread if it
\* returns OK and none otherwise; while a task runs on the thread its queue
\* is not empty and the task is the queue's front, so a schedule() call
\* made by the task launches no thread and, when accepted, runs the new
\* task inline or appends it to this thread's queue; a thread's queue only
\* grows at the back and shrinks at the front, and a task runs on no other
\* thread than the one whose queue holds it.
C29_OneThreadPerConnection ==
    /\ [](LET holds(t, k) ==
                  \/ \E i \in 1..Len(syThread[t].localWorkQueue) :
                         syThread[t].localWorkQueue[i] = k
                  \/ \E i \in 1..Len(syThread[t].stack) :
                         syThread[t].stack[i] = k
          IN  \A t \in SyThreads :
                  /\ syThread[t].pc = "inTask" =>
                         /\ syThread[t].localWorkQueue # <<>>
                         /\ Head(syThread[t].localWorkQueue)
                                = syThread[t].stack[1]
                  /\ \A u \in SyThreads, k \in SyTasks :
                         (holds(t, k) /\ holds(u, k)) => t = u)
    /\ [][LET live(th) == {t \in SyThreads : th[t].pc # "free"}
          IN  /\ \A k \in SyTasks, ok \in BOOLEAN :
                     SyScheduleLaunch(k, ok) =>
                         Cardinality(live(syThread'))
                             = Cardinality(live(syThread))
                                   + (IF syTask'[k].returned = "OK"
                                      THEN 1 ELSE 0)
              /\ \A t \in SyThreads, k \in SyTasks, flags \in SyFlags :
                     SyScheduleInTask(t, k, flags) =>
                         /\ live(syThread') = live(syThread)
                         /\ \A u \in SyThreads \ {t} :
                                syThread'[u] = syThread[u]
                         /\ sy.stillRunning =>
                                \/ syThread'[t].stack
                                       = Append(syThread[t].stack, k)
                                \/ syThread'[t].localWorkQueue
                                       = Append(syThread[t].localWorkQueue,
                                                k)
              /\ \A t \in SyThreads :
                     LET q == syThread[t].localWorkQueue
                         q2 == syThread'[t].localWorkQueue
                     IN  \/ q2 = q
                         \/ \E k \in SyTasks : q2 = Append(q, k)
                         \/ q # <<>> /\ q2 = Tail(q)
                         \/ syThread'[t].pc = "free" /\ q2 = <<>>]_vars

\* one thread has run two tasks and is running a third, which a task put
\* in its queue
C29_Witness ==
    \E t \in SyThreads :
        /\ syThread[t].pc = "inTask"
        /\ \A u \in SyThreads \ {t} : syThread[u].pc = "free"
        /\ Cardinality({k \in SyTasks : syTask[k].status = "done"}) = 2
        /\ \A k \in SyTasks : syTask[k].returned = "OK"

\* C30: a call of _getThreadTimerTotal never returns less than the call
\* before it returned, whatever worker threads exit meanwhile, so the delta
\* its caller computes from the two is never negative.
C30_TotalsNeverDecrease ==
    [][AdGetThreadTimerTotalSum =>
           adCtl'.lastSpentRunning >= adCtl.lastSpentRunning]_vars

C32_ZeroDenominatorYieldsZero ==
    [][\A w \in AdWorkers, pct \in {0, 100} :
           (/\ AdWorkerSliceEnd(w, 0, pct)
            /\ ~adWorker[w].stillPending
            /\ ad.threadsRunning > ReservedThreads) =>
               /\ pct = 0
               /\ adWorker'[w].pc = "exiting"]_vars

\* C33: between two entry points of the pool its four pools are pairwise
\* disjoint, the ready pool holds no connection twice, every connection
\* object that exists is in exactly the pool its place says, and a
\* connection whose setup or refresh is outstanding, or whose handle a
\* caller holds, is in the pool where the lookup of its callback or return
\* will look for it.
C33_PoolsDisjoint ==
    LET ready == {cp.readyPool[i] : i \in 1..Len(cp.readyPool)}
    IN  /\ Cardinality(ready) = Len(cp.readyPool)
        /\ ready \cap cp.processingPool = {}
        /\ ready \cap cp.droppedProcessingPool = {}
        /\ ready \cap cp.checkedOutPool = {}
        /\ cp.processingPool \cap cp.droppedProcessingPool = {}
        /\ cp.processingPool \cap cp.checkedOutPool = {}
        /\ cp.droppedProcessingPool \cap cp.checkedOutPool = {}
        /\ \A c \in Conns :
               /\ c \in ready <=> cpConn[c].where = "ready"
               /\ c \in cp.processingPool <=> cpConn[c].where = "processing"
               /\ c \in cp.droppedProcessingPool
                      <=> cpConn[c].where = "dropped"
               /\ c \in cp.checkedOutPool <=> cpConn[c].where = "checkedOut"
               /\ cpConn[c].pending # "none" <=>
                      c \in cp.processingPool \cup cp.droppedProcessingPool

\* a ready connection, one checked out and one dropped while its setup or
\* refresh was outstanding
C33_Witness ==
    /\ cp.readyPool # <<>>
    /\ cp.checkedOutPool # {}
    /\ cp.droppedProcessingPool # {}

\* C34: a healthy connection of the current generation returned with
\* status OK at or after lastUsed + refreshRequirement never goes straight
\* to the ready pool, and where the pool, with it, has no more than
\* minConnections open connections it is put in the processing pool with a
\* refresh outstanding;
\* returned before that date it is added to the ready pool, from where a
\* waiting request may take it at once; a refresh that succeeds adds the
\* connection to the ready pool in the same way.
C34_LateReturnIsRefreshed ==
    [][LET handedOut(c) == \E i \in 1..Len(cp'.handouts) :
                               cp'.handouts[i].conn = c
           toReady(c) == \/ cpConn'[c].where = "ready"
                         \/ cpConn'[c].where = "checkedOut" /\ handedOut(c)
           atMin == openConnections(CpWorld) <= cp.options.minConnections
       IN  /\ \A c \in Conns, used \in BOOLEAN :
                  (/\ CpReturn(c, "OK", used)
                   /\ cpConn[c].healthy
                   /\ cpConn[c].generation = cp.generation) =>
                      LET lastUsed == IF used THEN cpNow
                                      ELSE cpConn[c].lastUsed
                      IN  IF lastUsed + RefreshRequirement <= cpNow
                          THEN /\ cpConn'[c].where # "ready"
                               /\ ~handedOut(c)
                               /\ atMin =>
                                      /\ c \in cp'.processingPool
                                      /\ cpConn'[c].pending = "refresh"
                          ELSE toReady(c)
           /\ \A c \in Conns :
                  (/\ CpRefreshDone(c, "OK")
                   /\ cpConn[c].generation = cp.generation
                   /\ cpConn[c].healthy
                   /\ cp.state # "kInShutdown") => toReady(c)]_vars

\* a connection returned late is being refreshed
C34_Witness ==
    \E c \in Conns : /\ c \in cp.processingPool
                     /\ cpConn[c].pending = "refresh"
                     /\ cpConn[c].status = "OK"

\* C35: a setup or a refresh that completes with
\* NetworkInterfaceExceededTimeLimit leaves the queued requests, every
\* request's state and deadline, the generation and the ready pool as they
\* were; its connection is destroyed; and, unless the pool is shutting
\* down, spawnConnections has run: the pool is at its target or at
\* maxConnecting.
C35_TimeoutRetriesWithoutFailing ==
    [][\A c \in Conns :
           (\/ CpSetupDone(c, "NetworkInterfaceExceededTimeLimit")
            \/ CpRefreshDone(c, "NetworkInterfaceExceededTimeLimit")) =>
               /\ cp'.requests = cp.requests
               /\ cpReq' = cpReq
               /\ cp'.generation = cp.generation
               /\ cp'.readyPool = cp.readyPool
               /\ cpConn'[c].where = "destroyed"
               /\ cp.state # "kInShutdown" =>
                      \/ Cardinality(cp'.checkedOutPool) + Len(cp'.readyPool)
                             + Cardinality(cp'.processingPool)
                             >= Max(cp'.options.minConnections,
                                    Min(Len(cp'.requests)
                                            + Cardinality(cp'.checkedOutPool),
                                        cp'.options.maxConnections))
                      \/ Cardinality(cp'.processingPool)
                             >= cp'.options.maxConnecting]_vars

\* the only request made so far is still queued after the connection made
\* for it timed out, and a second connection is being set up
C35_Witness ==
    /\ cp.generation = 0
    /\ Len(cp.requests) = 1
    /\ Cardinality({r \in Reqs : cpReq[r].state # "unused"}) = 1
    /\ \E c \in Conns : cpConn[c].where = "destroyed"
    /\ \E c \in Conns : cpConn[c].pending = "setup"

C37_ErasedOnlyAfterHostTimeout ==
    [][(cp.exists /\ ~cp'.exists) => cpNow >= cp.requestTimerExpiration]_vars

\* C38: the thread that calls a connection's setup() or refresh(), or a
\* request's callback (with a connection, the timeout status or a failure
\* status), does not hold the pool's mutex at the call, and it holds the
\* mutex again whenever it then enters updateStateInLock, spawnConnections
\* or fulfillRequests.
C38_NoCallUnderMutex == cp.lockMisuse = {}

\* one handler has given a request's callback a connection and has called
\* setup() for a new connection
C38_Witness ==
    /\ cp.calls = {"setup", "callback"}
    /\ Len(cp.handouts) = 1
    /\ \E c \in cp.processingPool : cpConn[c].pending = "setup"

\* C39: the callback of a get() call has been invoked once when the request
\* is done and not at all before, whatever the order of fulfilment, timer
\* expiry, processFailure and dropConnections; a request that is still
\* pending is held by the queue exactly once, with the request timer set to
\* expire no later than it does, so its callback is not lost, and a request
\* that is done is no longer in the queue; the one invocation carries a
\* connection, the timeout status or the status of the failure.
C39_CallbackExactlyOnce ==
    \A r \in Reqs :
        LET queued == {i \in 1..Len(cp.requests) : cp.requests[i].second = r}
        IN  /\ cpReq[r].calls <= 1
            /\ cpReq[r].state = "done" <=> cpReq[r].calls = 1
            /\ cpReq[r].state = "done" =>
                   /\ queued = {}
                   /\ cpReq[r].result \in
                          {"OK", "NetworkInterfaceExceededTimeLimit",
                           "HostUnreachable", "PooledConnectionsDropped"}
            /\ cpReq[r].state = "pending" =>
                   /\ Cardinality(queued) = 1
                   /\ cp.requestTimer.armed
                   /\ cp.requestTimer.kind = "requests"
                   /\ cp.requestTimer.expiry <= cpReq[r].deadline
            /\ cpReq[r].state = "unused" => queued = {}

\* three get() calls have ended in the three ways, each callback invoked once
C39_Witness ==
    /\ \E r \in Reqs : cpReq[r].result = "OK" /\ cpReq[r].calls = 1
    /\ \E r \in Reqs : /\ cpReq[r].result = "NetworkInterfaceExceededTimeLimit"
                       /\ cpReq[r].calls = 1
    /\ \E r \in Reqs : /\ cpReq[r].result = "PooledConnectionsDropped"
                       /\ cpReq[r].calls = 1

\* C40: a schedule() call of the adaptive executor that returns
\* ShutdownInProgress leaves tasksQueued, deferredTasksQueued, totalQueued
\* and the last-schedule timer as they were before the call.
C40_RejectedScheduleChangesNothing ==
    [][\A k \in AdTasks :
           (adTask[k].status = "new" /\ adTask'[k].status = "rejected") =>
               /\ ad'.tasksQueued = ad.tasksQueued
               /\ ad'.deferredTasksQueued = ad.deferredTasksQueued
               /\ ad'.totalQueued = ad.totalQueued
               /\ ad'.scheduledThisWait = ad.scheduledThisWait]_vars
====
